---- MODULE Spec2Model ----
(***************************************************************************)
(* The selection monitor daemon of zsh-edit-select and its cache           *)
(* rendezvous (the files primary, seq and monitor.pid), for the four       *)
(* daemon implementations of the repository:                               *)
(*   "wayland"  impl-wayland/backends/wayland/zes-wl-selection-monitor.c   *)
(*   "x11"      impl-x11/backends/x11/zes-x11-selection-monitor.c          *)
(*   "xwayland" impl-wayland/backends/x11/zes-xwayland-monitor.c           *)
(*   "legacy"   backends/x11/zes-selection-monitor.c                       *)
(* Every system call of write_primary and of the shutdown sequence is one  *)
(* step, so that a concurrent reader of the cache directory can observe    *)
(* every intermediate state of the files.                                  *)
(*                                                                         *)
(* Environment assumptions: open(2) in the cache directory succeeds once   *)
(* ensure_cache_dir has succeeded, write(2) of a regular file writes the   *)
(* whole buffer, daemon(3) succeeds, and only one daemon uses the          *)
(* directory.                                                              *)
(***************************************************************************)
EXTENDS Integers, Sequences, FiniteSets, TLC

\* ------------------------------------------------------------- bounds
\* time(NULL) at startup is drawn from 1..MaxTime
MaxTime == 2
\* selection changes the windowing system makes during one run
MaxEvents == 3
\* selection notifications queued and not yet dispatched
MaxPending == 1
\* poll timeouts of the Wayland loop that re-read the offer
MaxTimeouts == 2

\* ------------------------------------------------------------- values
Backends == {"wayland", "x11", "xwayland", "legacy"}

X11Backends == {"x11", "xwayland"}

\* Selection texts (non-empty byte strings).
Contents == {"a", "b"}

\* A NULL char pointer / a failed read.
Null == "<null>"

\* A file that does not exist.
Absent == "<absent>"

\* X11: the selection has no owner (None).
NoOwner == "<none>"

\* Wayland: a NULL offer pointer.
NullOffer == [id |-> 0, data |-> "", text |-> FALSE]

\* The MIME types ps_offer_handle_offer accepts.
AcceptableMimes == {"text/plain;charset=utf-8", "text/plain", "UTF8_STRING", "TEXT", "STRING"}

\* The seq file: absent, truncated (exists, no bytes yet) or holding a number.
SeqAbsent == [st |-> "absent", v |-> 0]

SeqEmpty == [st |-> "empty", v |-> 0]

SeqVal(n) == [st |-> "val", v |-> n]

VARIABLES
  backend,            \* which implementation runs
  seed,               \* the value time(NULL) returns at startup
  pc,                 \* the daemon's position in run_daemon / daemon_mode
  running,            \* static volatile sig_atomic_t running
  seq_counter,        \* static unsigned long seq_counter (legacy: local seq)
  exitCode,           \* the daemon's return value, -1 while it runs
  wp, wpData, wpSeq,  \* write_primary: next system call, and its arguments
  fdPrimary, fdSeq,   \* write_primary: the descriptor is open
  primary, seqf, pidf,\* the three rendezvous files
  owner,              \* X11: text held by the PRIMARY owner, or NoOwner
  xq,                 \* X11: queued XFixesSelectionNotify events (their owner)
  wlq,                \* Wayland: queued device/offer events
  nSel,               \* selection changes made by the windowing system
  current_ps_offer,   \* Wayland: static current_ps_offer
  ps_has_text,        \* Wayland: static ps_has_text
  last_known_content, \* Wayland: static last_known_content (Null or text)
  got_selection,      \* Wayland: static got_selection
  liveOffers,         \* Wayland: ids of the offer proxies not yet destroyed
  nTimeouts,          \* Wayland: poll timeouts that re-read the offer
  nHandled,           \* history: selection events handled
  evUnpub,            \* history: selection events handled since the last publish
  evKind, evSeqBefore,\* history: the last handled event and seq before it
  firstPub,           \* history: the first completed publish
  seqHist,            \* history: the values written to seq, in order
  primDone,           \* history: seq arguments whose primary write was closed
  stableX,            \* history: primary at the first poll-timeout re-read since the last event
  rpc, rLast, rTorn,  \* the shell-side reader of the rendezvous
  reader,             \* selection read: which read routine runs
  payloadLen,         \* selection read: bytes the selection owner sends
  rd_pc,              \* selection read: position in the read routine
  max_size,           \* read_fd_with_timeout: the max_size argument
  total, capacity,    \* read_fd_with_timeout / read_all_stdin: size_t total, capacity
  nShort,             \* read() calls of the running loop that returned fewer than 4096 bytes
  cc_pc,              \* copy-clipboard: position in run_copy_clipboard
  stdinLen,           \* copy-clipboard: bytes on standard input
  data_len,           \* copy-clipboard: data_len / copy_data_len
  timeout_count,      \* copy-clipboard (X11): int timeout_count
  selection_served,   \* copy-clipboard (x11): bool selection_served
  selection_request_received, \* copy-clipboard (xwayland): static flag
  copy_done,          \* copy-clipboard (wayland): static bool copy_done
  copy_source,        \* copy-clipboard (wayland): copy_source is not NULL
  hupDisp,            \* copy-clipboard: disposition of SIGHUP in the child
  clipOwner,          \* who owns CLIPBOARD: "none", "server" or "other"
  cq,                 \* events queued for the copy-clipboard child
  nReq,               \* paste requests made by other clients
  ownIssued, forked,  \* history: set_selection / XSetSelectionOwner issued; fork done
  getOut,             \* history: bytes the last get-clipboard wrote (-1: none yet)
  clearHandled,       \* history: SelectionClear / cancelled was handled
  answeredAfterClear, \* history: a request was answered after that
  idleTicks,          \* history: 100 ms ticks since the last answered request
  hupEffect,          \* history: what a SIGHUP did to the child
  sigTerm,            \* history: SIGTERM or SIGINT was delivered to the child
  termPasses,         \* history: loop tests passed after that signal
  lastReply,          \* history: the answer of handle_selection_request to the last request
  copyWin,            \* copy-clipboard (X11): Window w: "none", "live" or "destroyed"
  copyConn,           \* copy-clipboard: the connection to the display server is open
  ownerChecked,       \* copy-clipboard (X11): XGetSelectionOwner(...) != w: "unchecked", "own", "other"
  dataFreed,          \* copy-clipboard: free(data) was called
  attempts,           \* one-shot (wayland): int attempts
  cache_dir_arg,      \* one-shot: the cache directory argument: "none", "ok" or "bad" (cannot be created)
  have_cache,         \* one-shot (wayland): int have_cache
  gated,              \* one-shot (wayland): the compositor sends the selection only to a focused client
  canPopup,           \* one-shot (wayland): wl_comp && xdg_wmbase && wl_shm_obj
  os_out,             \* one-shot: the bytes written to standard output
  selAvail,           \* history: the selection held bytes when the one-shot started
  os_surface,         \* history: the one-shot called create_daemon_surface
  os_receives,        \* history: receive requests the one-shot issued on an offer
  surface_configured, \* Wayland: static bool surface_configured
  surfState,          \* Wayland: the daemon surface: "none", "committed" (initial commit) or "mapped"
  pendingRegion,      \* Wayland: the surface's pending (double-buffered) input region
  inputRegion,        \* Wayland: the input region applied by the last commit
  cfgSent,            \* Wayland: the compositor has sent the initial xdg_surface.configure
  attachUnacked,      \* history: a buffer was attached and committed before a configure was acked
  argv,               \* main: the arguments after the program name
  wl_i, x_i,          \* main: the loop index i of the Wayland and of the X11 program
  mode,               \* main (wayland): enum mode
  wl_cache_dir_arg,   \* main (wayland): const char *cache_dir_arg
  x_flags,            \* main (X11): the mode booleans that are true
  x_cache_dir_arg,    \* main (X11): const char *cache_dir_arg
  wl_main_pc, x_main_pc, \* main: "off", "parse", "help" (returned 0) or "run"
  xr_pc,              \* X11 reader: "off", "idle" (no read runs) or "poll" (in the for loop)
  xr_i,               \* X11 reader: the loop counter i
  xr_w,               \* X11 reader: Window w of the running read
  xr_wins,            \* X11 reader: the requestor windows that exist
  xr_owner,           \* X11 reader: PRIMARY has an owner
  xr_pending,         \* X11 reader: the conversions the owner has not answered yet
  xr_events,          \* X11 reader: the SelectionNotify events queued on the connection
  xr_prop,            \* X11 reader: per window, the conversion whose bytes its property holds (0: no property)
  xr_reads,           \* X11 reader: reads started (the number of the last conversion)
  xr_result,          \* history: the last read and the conversion whose bytes it returned (0: none)
  xr_made,            \* history: windows created and conversions issued so far
  sh_wp,              \* shared cache: per process, its position in write_primary
  sh_arg,             \* shared cache: per process, the seq and the publish of the running call
  sh_counter,         \* shared cache: per process, its own seq_counter
  sh_n,               \* shared cache: per process, the publishes it has started
  sh_primary,         \* shared cache: the primary file and the publish that last changed it
  sh_seq,             \* shared cache: the seq file and the publish that last changed it
  sh_last,            \* history: the value last written to the seq file
  wl_wire,            \* Wayland: events the compositor has sent that have not reached the socket yet
  mimeDev,            \* offer types: the device of the offer, "primary" or "clipboard"
  advertised,         \* offer types: the MIME types the offer advertises
  mimesLeft,          \* offer types: the offer events not yet dispatched
  clip_has_text,      \* Wayland: static bool clip_has_text
  mime_pc,            \* offer types: data_offer, offer events, selection, read decision
  offerRead,          \* history: receive was issued on the offer
  requestedMime       \* history: the MIME type of that receive request ("": no request)

wpVars == <<wp, wpData, wpSeq>>

fileVars == <<primary, seqf, pidf, fdPrimary, fdSeq>>

envVars == <<owner, xq, wlq, nSel>>

wlVars == <<current_ps_offer, ps_has_text, last_known_content, got_selection, liveOffers>>

histVars == <<nHandled, evUnpub, evKind, evSeqBefore, firstPub, seqHist, primDone, nTimeouts, stableX>>

readerVars == <<rpc, rLast, rTorn>>

procVars == <<backend, seed, pc, running, seq_counter, exitCode>>

daemonVars == <<procVars, wpVars, fileVars, envVars, wlVars, histVars, readerVars>>

\* The selection read of one read_fd_with_timeout / get_primary_selection call.
readVars == <<reader, payloadLen, rd_pc, max_size, total, capacity, nShort>>

\* run_copy_clipboard and the clients of its clipboard server.
copyState == <<cc_pc, stdinLen, data_len, timeout_count, selection_served,
               selection_request_received, copy_done, copy_source, hupDisp>>

copyEnv == <<clipOwner, cq, nReq>>

copyHist == <<ownIssued, forked, getOut, clearHandled, answeredAfterClear, idleTicks,
              hupEffect, sigTerm, termPasses, lastReply>>

\* The handles run_copy_clipboard holds before it forks.
parentVars == <<copyWin, copyConn, ownerChecked, dataFreed>>

copyVars == <<copyState, copyEnv, copyHist, parentVars>>

\* run_oneshot / oneshot_mode.
oneVars == <<attempts, cache_dir_arg, have_cache, gated, canPopup, os_out, selAvail,
             os_surface, os_receives>>

\* create_daemon_surface and the xdg-shell listeners.
surfVars == <<surface_configured, surfState, pendingRegion, inputRegion, cfgSent, attachUnacked>>

\* One offer, its advertised types and the decision to read it.
mimeVars == <<mimeDev, advertised, mimesLeft, clip_has_text, mime_pc, offerRead, requestedMime>>

\* main of the Wayland and of the X11 programs: the argument loop.
argVars == <<argv, wl_i, x_i, mode, wl_cache_dir_arg, x_flags, x_cache_dir_arg, wl_main_pc,
             x_main_pc>>

\* get_primary_selection / read_selection of the X11 programs, step by step.
xrVars == <<xr_pc, xr_i, xr_w, xr_wins, xr_owner, xr_pending, xr_events, xr_prop, xr_reads,
            xr_result, xr_made>>

\* The daemon and a one-shot of the Wayland program on one cache directory.
shVars == <<sh_wp, sh_arg, sh_counter, sh_n, sh_primary, sh_seq, sh_last>>

\* The compositor's side of the connection.
raceVars == <<wl_wire>>

toolVars == <<readVars, copyVars, oneVars, surfVars, mimeVars, argVars, xrVars, shVars, raceVars>>

\* The daemon state that no helper mode touches.
copyFrame == <<seed, pc, seq_counter, wpVars, fileVars, envVars, wlVars, histVars, readerVars, oneVars, surfVars, mimeVars, argVars, xrVars, shVars, raceVars>>

\* What no step of run_copy_clipboard but the request handler changes.
toolFrame == <<copyFrame, lastReply, parentVars>>

vars == <<daemonVars, toolVars>>

NoPub == [set |-> FALSE, data |-> "", seq |-> 0]

\* No poll-timeout re-read has happened since the last delivered event.
NoReread == "<noreread>"

\* No selection read is being followed.
ReadOff ==
  /\ reader = "none" /\ payloadLen = 0 /\ rd_pc = "off"
  /\ max_size = 0 /\ total = 0 /\ capacity = 0 /\ nShort = 0

\* No SelectionRequest has been answered.
NoReply == [target |-> "", property |-> "", type |-> "", value |-> {}, len |-> 0, sent |-> 0]

\* No copy-clipboard process runs.
CopyOff ==
  /\ cc_pc = "off" /\ stdinLen = 0 /\ data_len = 0
  /\ timeout_count = 0 /\ selection_served = FALSE
  /\ selection_request_received = FALSE
  /\ copy_done = FALSE /\ copy_source = FALSE
  /\ hupDisp = "default"
  /\ clipOwner = "none" /\ cq = <<>> /\ nReq = 0
  /\ ownIssued = FALSE /\ forked = FALSE /\ getOut = -1
  /\ clearHandled = FALSE /\ answeredAfterClear = FALSE
  /\ idleTicks = 0 /\ hupEffect = "none"
  /\ sigTerm = FALSE /\ termPasses = 0
  /\ lastReply = NoReply
  /\ copyWin = "none" /\ copyConn = FALSE
  /\ ownerChecked = "unchecked" /\ dataFreed = FALSE

\* const char *cache_dir_arg = NULL
NoArg == "<null>"

\* The most reads followed.
MaxReads == 3

\* The windows of the reads: 0 is the legacy daemon's persistent window.
ReaderWindows == 0..MaxReads

\* No X11 selection read is being followed.
XrOff ==
  /\ xr_pc = "off" /\ xr_i = 0 /\ xr_w = 0 /\ xr_wins = {}
  /\ xr_owner = FALSE /\ xr_pending = {} /\ xr_events = <<>>
  /\ xr_prop = [win \in ReaderWindows |-> 0]
  /\ xr_reads = 0 /\ xr_result = [read |-> 0, conv |-> 0, how |-> ""]
  /\ xr_made = [windows |-> 0, conversions |-> 0]

\* The two processes that publish to one cache directory.
Procs == {"daemon", "oneshot"}

\* No publish has touched the file.
NoBy == [proc |-> "none", n |-> 0]

\* No two processes on one cache directory are being followed.
ShOff ==
  /\ sh_wp = [p \in Procs |-> "off"]
  /\ sh_arg = [p \in Procs |-> [seq |-> 0, by |-> NoBy, empty |-> TRUE]]
  /\ sh_counter = [p \in Procs |-> 0]
  /\ sh_n = [p \in Procs |-> 0]
  /\ sh_primary = [st |-> "absent", by |-> NoBy]
  /\ sh_seq = [st |-> "absent", v |-> 0, by |-> NoBy]
  /\ sh_last = 0

\* Nothing is on its way from the compositor.
RaceOff == wl_wire = <<>>

\* No main is being followed.
ArgOff ==
  /\ argv = <<>> /\ wl_i = 0 /\ x_i = 0
  /\ mode = "MODE_DAEMON" /\ wl_cache_dir_arg = NoArg
  /\ x_flags = {} /\ x_cache_dir_arg = NoArg
  /\ wl_main_pc = "off" /\ x_main_pc = "off"

\* No offer is being followed.
MimeOff ==
  /\ mimeDev = "none" /\ advertised = {} /\ mimesLeft = {}
  /\ clip_has_text = FALSE /\ mime_pc = "off" /\ offerRead = FALSE
  /\ requestedMime = ""

\* No surface has been created.
SurfOff ==
  /\ surface_configured = FALSE /\ surfState = "none"
  /\ pendingRegion = "infinite" /\ inputRegion = "infinite"
  /\ cfgSent = FALSE /\ attachUnacked = FALSE

\* No one-shot process runs.
OneOff ==
  /\ attempts = 0 /\ cache_dir_arg = "none" /\ have_cache = FALSE
  /\ gated = FALSE /\ canPopup = FALSE
  /\ os_out = "" /\ selAvail = FALSE
  /\ os_surface = FALSE /\ os_receives = 0

Init ==
  /\ backend \in Backends
  /\ seed \in 1..MaxTime
  /\ pc = "start"
  /\ running = TRUE
  /\ seq_counter = 0
  /\ exitCode = -1
  /\ wp = "idle" /\ wpData = "" /\ wpSeq = 0
  /\ fdPrimary = FALSE /\ fdSeq = FALSE
  /\ primary = Absent /\ seqf = SeqAbsent /\ pidf = FALSE
  /\ owner \in Contents \cup {NoOwner}
  /\ xq = <<>> /\ wlq = <<>> /\ nSel = 0
  /\ current_ps_offer = NullOffer /\ ps_has_text = FALSE
  /\ last_known_content = Null
  /\ got_selection = FALSE /\ liveOffers = {}
  /\ nTimeouts = 0 /\ nHandled = 0 /\ evUnpub = 0
  /\ evKind = "none" /\ evSeqBefore = SeqAbsent
  /\ firstPub = NoPub /\ seqHist = <<>> /\ primDone = {}
  /\ stableX = NoReread
  /\ rpc = "poll" /\ rLast = 0 /\ rTorn = FALSE
  /\ ReadOff /\ CopyOff /\ OneOff /\ SurfOff /\ MimeOff /\ ArgOff /\ XrOff /\ ShOff /\ RaceOff

\* ------------------------------------------------------ write_primary
\* write_primary with the seq file written while primary is open and empty.
WpAfterSeqFirst(pos) ==
  CASE pos = "open_primary" -> "open_seq"
    [] pos = "open_seq" -> "write_seq"
    [] pos = "write_seq" -> "close_seq"
    [] pos = "close_seq" -> "write_primary"
    [] pos = "write_primary" -> "close_primary"
    [] pos = "close_primary" -> "idle"

\* The order of the system calls in write_primary: wp names the next call.
WpAfter(pos) ==
  CASE pos = "open_primary" -> "write_primary"
    [] pos = "write_primary" -> "close_primary"
    [] pos = "close_primary" -> "open_seq"
    [] pos = "open_seq" -> "write_seq"
    [] pos = "write_seq" -> "close_seq"
    [] pos = "close_seq" -> "idle"

\* write_primary(data, len, seq) is entered; the caller resumes when wp is idle.
CallWritePrimary(data, seq) ==
  /\ wp' = "open_primary"
  /\ wpData' = data
  /\ wpSeq' = seq

\* sel ? sel : "" -- the bytes handed to write_primary for a read result.
Payload(sel) == IF sel = Null THEN "" ELSE sel

\* open(primary_path, O_WRONLY | O_CREAT | O_TRUNC)
OpenPrimary ==
  /\ wp = "open_primary"
  /\ primary' = ""
  /\ fdPrimary' = TRUE
  /\ wp' = WpAfter(wp)
  /\ UNCHANGED <<procVars, wpData, wpSeq, seqf, pidf, fdSeq, envVars, wlVars, histVars, readerVars, toolVars>>

\* if (len > 0 && data) write(fd, data, len)
WritePrimary ==
  /\ wp = "write_primary"
  /\ primary' = IF wpData # "" THEN wpData ELSE primary
  /\ wp' = WpAfter(wp)
  /\ UNCHANGED <<procVars, wpData, wpSeq, seqf, pidf, fdPrimary, fdSeq, envVars, wlVars, histVars, readerVars, toolVars>>

\* close(fd) of primary
ClosePrimary ==
  /\ wp = "close_primary"
  /\ fdPrimary' = FALSE
  /\ primDone' = primDone \cup {wpSeq}
  /\ wp' = WpAfter(wp)
  /\ UNCHANGED <<procVars, wpData, wpSeq, primary, seqf, pidf, fdSeq, envVars, wlVars,
                 nHandled, evUnpub, evKind, evSeqBefore, firstPub, seqHist, nTimeouts, stableX,
                 readerVars, toolVars>>

\* open(seq_path, O_WRONLY | O_CREAT | O_TRUNC)
OpenSeq ==
  /\ wp = "open_seq"
  /\ seqf' = SeqEmpty
  /\ fdSeq' = TRUE
  /\ wp' = WpAfter(wp)
  /\ UNCHANGED <<procVars, wpData, wpSeq, primary, pidf, fdPrimary, envVars, wlVars, histVars, readerVars, toolVars>>

\* snprintf(buf, "%lu\n", seq); write(fd, buf, n)
WriteSeq ==
  /\ wp = "write_seq"
  /\ seqf' = SeqVal(wpSeq)
  /\ seqHist' = Append(seqHist, wpSeq)
  /\ evUnpub' = 0
  /\ firstPub' = IF firstPub.set THEN firstPub
                 ELSE [set |-> TRUE, data |-> wpData, seq |-> wpSeq]
  /\ wp' = WpAfter(wp)
  /\ UNCHANGED <<procVars, wpData, wpSeq, primary, pidf, fdPrimary, fdSeq, envVars, wlVars,
                 nHandled, evKind, evSeqBefore, primDone, nTimeouts, stableX, readerVars, toolVars>>

\* close(fd) of seq; write_primary returns
CloseSeq ==
  /\ wp = "close_seq"
  /\ fdSeq' = FALSE
  /\ wp' = WpAfter(wp)
  /\ wpData' = "" /\ wpSeq' = 0
  /\ UNCHANGED <<procVars, primary, seqf, pidf, fdPrimary, envVars, wlVars, histVars, readerVars, toolVars>>

WritePrimarySteps ==
  \/ OpenPrimary \/ WritePrimary \/ ClosePrimary
  \/ OpenSeq \/ WriteSeq \/ CloseSeq

\* The daemon is not inside write_primary.
Idle == wp = "idle"

\* ------------------------------------------------------- shared helpers
\* A publish that forgets the increment.
NextSeqStuck(s) == s

\* seq_counter++ (legacy: seq++)
NextSeq(s) == s + 1

\* signal(SIGTERM/SIGINT/SIGHUP, signal_handler) has been executed.  (A
\* signal delivered earlier has its default action and is not a run of
\* the daemon considered here.)
SignalsInstalled == pc \notin {"start", "daemonize", "done"}

\* The positions inside the event loop.
LoopPcs == {"loop", "xnext", "dispatch"}

\* The daemon is past startup and has not begun to tear down.
Serving == pc \in {"first_check", "enter_loop", "loop", "xnext", "rt_device", "rt_configure", "rt_map", "dispatch"}

\* History of a handled selection event.
EventHandled(kind) ==
  /\ nHandled' = nHandled + 1
  /\ evUnpub' = evUnpub + 1
  /\ evKind' = kind
  /\ evSeqBefore' = seqf

\* ------------------------------------------------------- X11 selection read
\* get_primary_selection / read_selection: NULL when there is no owner, when
\* the owner refuses the target or when no SelectionNotify arrives within the
\* poll budget; otherwise the owner's bytes.
XRead == IF owner = NoOwner THEN {Null} ELSE {Null, owner}

\* check_and_update_primary of the X11 backends, up to the call of write_primary.
XCheckAndUpdate ==
  \E sel \in XRead :
    /\ seq_counter' = NextSeq(seq_counter)
    /\ CallWritePrimary(Payload(sel), NextSeq(seq_counter))

\* The kind of a handled event whose handler read the selection: "text"
\* when the reader returned bytes, "readfail" when it returned none.
ReadKind(sel) == IF sel = Null THEN "readfail" ELSE "text"

\* ------------------------------------------------------- startup
\* A startup that daemonizes without the initial publish.
StartNoPublish ==
  /\ pc = "start"
  /\ pc' = "daemonize"
  /\ UNCHANGED <<backend, seed, running, seq_counter, exitCode, wpVars, fileVars, envVars,
                 wlVars, histVars, readerVars, toolVars>>

\* run_daemon up to daemon(): the initial publish ("", time(NULL)).
\* The legacy daemon_mode publishes nothing before daemon().
Start ==
  /\ pc = "start"
  /\ pc' = "daemonize"
  /\ IF backend = "legacy"
       THEN UNCHANGED <<seq_counter, wpVars>>
       ELSE /\ seq_counter' = seed
            /\ CallWritePrimary("", seed)
  /\ UNCHANGED <<backend, seed, running, exitCode, fileVars, envVars, wlVars, histVars, readerVars, toolVars>>

\* daemon(0, 0); the pid file; the three signal() calls.
Daemonize ==
  /\ pc = "daemonize" /\ Idle
  /\ pidf' = TRUE
  /\ pc' = IF backend = "wayland" THEN "rt_device" ELSE "first_check"
  /\ UNCHANGED <<backend, seed, running, seq_counter, exitCode, wpVars, primary, seqf,
                 fdPrimary, fdSeq, envVars, wlVars, histVars, readerVars, toolVars>>

\* x11 / xwayland: check_and_update_primary() before the loop.
XFirstCheck ==
  /\ pc = "first_check" /\ Idle /\ backend \in X11Backends
  /\ XCheckAndUpdate
  /\ pc' = "enter_loop"
  /\ UNCHANGED <<backend, seed, running, exitCode, fileVars, envVars, wlVars, histVars, readerVars, toolVars>>

\* legacy: seq = time(NULL); the first read_selection and its publish.
LegacyFirstRead ==
  /\ pc = "first_check" /\ Idle /\ backend = "legacy"
  /\ \E sel \in XRead :
       /\ seq_counter' = seed
       /\ CallWritePrimary(Payload(sel), seed)
  /\ pc' = "enter_loop"
  /\ UNCHANGED <<backend, seed, running, exitCode, fileVars, envVars, wlVars, histVars, readerVars, toolVars>>

\* ------------------------------------------------------- X11 event loops
\* The startup publish has returned: control reaches while (running).
EnterLoop ==
  /\ pc = "enter_loop" /\ Idle
  /\ pc' = "loop"
  /\ UNCHANGED <<backend, seed, running, seq_counter, exitCode, wpVars, fileVars, envVars,
                 wlVars, histVars, readerVars, toolVars>>

\* x11 / xwayland: while (running) { XNextEvent(...) -- the test passed.
XLoopEnter ==
  /\ pc = "loop" /\ Idle /\ backend \in X11Backends
  /\ running
  /\ pc' = "xnext"
  /\ UNCHANGED <<backend, seed, running, seq_counter, exitCode, wpVars, fileVars, envVars,
                 wlVars, histVars, readerVars, toolVars>>

\* x11 / xwayland: XNextEvent returns an XFixesSelectionNotify for PRIMARY.
\* With an empty queue XNextEvent blocks, whatever the value of running.
XNextEvent ==
  /\ pc = "xnext" /\ backend \in X11Backends
  /\ xq # <<>>
  /\ xq' = Tail(xq)
  /\ \E sel \in XRead :
       /\ seq_counter' = NextSeq(seq_counter)
       /\ CallWritePrimary(Payload(sel), NextSeq(seq_counter))
       /\ EventHandled(IF Head(xq) = NoOwner THEN "empty" ELSE ReadKind(sel))
  /\ pc' = "loop"
  /\ UNCHANGED <<backend, seed, running, exitCode, fileVars, owner, wlq, nSel, wlVars,
                 firstPub, seqHist, primDone, nTimeouts, stableX, readerVars, toolVars>>

\* legacy: select() reported the connection readable (or XPending > 0);
\* XNextEvent; seq++; write by sev->owner.  A select() timeout or EINTR
\* changes nothing and returns to the loop test.
LegacyEvent ==
  /\ pc = "loop" /\ Idle /\ backend = "legacy"
  /\ running
  /\ xq # <<>>
  /\ xq' = Tail(xq)
  /\ seq_counter' = NextSeq(seq_counter)
  /\ IF Head(xq) = NoOwner
       THEN /\ CallWritePrimary("", NextSeq(seq_counter))
            /\ EventHandled("empty")
       ELSE \E sel \in XRead :
              /\ CallWritePrimary(Payload(sel), NextSeq(seq_counter))
              /\ EventHandled(ReadKind(sel))
  /\ UNCHANGED <<backend, seed, pc, running, exitCode, fileVars, owner, wlq, nSel, wlVars,
                 firstPub, seqHist, primDone, nTimeouts, stableX, readerVars, toolVars>>

\* while (running) is found false: the loop returns.
LoopExit ==
  /\ pc = "loop" /\ Idle
  /\ ~running
  /\ pc' = IF backend = "wayland" THEN "disconnect" ELSE "unlink_primary"
  /\ UNCHANGED <<backend, seed, running, seq_counter, exitCode, wpVars, fileVars, envVars,
                 wlVars, histVars, readerVars, toolVars>>

\* ------------------------------------------------------- shutdown
\* A shutdown that returns without unlinking the pid file.
CleanupSkipPid(pos) ==
  CASE pos = "unlink_primary" -> "unlink_seq"
    [] pos = "unlink_seq" -> "done"
    [] pos = "unlink_pid" -> "done"

\* The order of the unlink calls after the loop.
CleanupAfter(pos) ==
  CASE pos = "unlink_primary" -> "unlink_seq"
    [] pos = "unlink_seq" -> "unlink_pid"
    [] pos = "unlink_pid" -> "done"

\* wayland_disconnect(); free(last_known_content)
WlDisconnect ==
  /\ pc = "disconnect"
  /\ current_ps_offer' = NullOffer
  /\ liveOffers' = liveOffers \ {current_ps_offer.id}
  /\ last_known_content' = Null
  /\ pc' = "unlink_primary"
  /\ UNCHANGED <<backend, seed, running, seq_counter, exitCode, wpVars, fileVars, envVars,
                 ps_has_text, got_selection, histVars, readerVars, toolVars>>

\* unlink(primary_path)
UnlinkPrimary ==
  /\ pc = "unlink_primary"
  /\ primary' = Absent
  /\ pc' = CleanupAfter(pc)
  /\ exitCode' = IF pc' = "done" THEN 0 ELSE exitCode
  /\ UNCHANGED <<backend, seed, running, seq_counter, wpVars, seqf, pidf, fdPrimary, fdSeq,
                 envVars, wlVars, histVars, readerVars, toolVars>>

\* unlink(seq_path)
UnlinkSeq ==
  /\ pc = "unlink_seq"
  /\ seqf' = SeqAbsent
  /\ pc' = CleanupAfter(pc)
  /\ exitCode' = IF pc' = "done" THEN 0 ELSE exitCode
  /\ UNCHANGED <<backend, seed, running, seq_counter, wpVars, primary, pidf, fdPrimary, fdSeq,
                 envVars, wlVars, histVars, readerVars, toolVars>>

\* unlink(pid_path); return 0
UnlinkPid ==
  /\ pc = "unlink_pid"
  /\ pidf' = FALSE
  /\ pc' = CleanupAfter(pc)
  /\ exitCode' = IF pc' = "done" THEN 0 ELSE exitCode
  /\ UNCHANGED <<backend, seed, running, seq_counter, wpVars, primary, seqf, fdPrimary, fdSeq,
                 envVars, wlVars, histVars, readerVars, toolVars>>

\* ------------------------------------------------------- Wayland backend
\* read_ps_offer: the bytes the offering client sends, or NULL when the
\* first poll times out or the pipe is closed without data.
ReadPsOffer(offer) == {Null, offer.data}

\* The positions at which queued events are dispatched to the listeners:
\* the roundtrips of run_daemon and create_daemon_surface, and
\* wl_display_dispatch_pending in the loop.
DispatchPoints == {"rt_device", "rt_configure", "rt_map", "dispatch"}

Dispatching == pc \in DispatchPoints /\ Idle /\ wlq # <<>>

\* The comparison of a read result with last_known_content.
Changed(sel) ==
  \/ sel = Null /\ last_known_content # Null
  \/ sel # Null /\ last_known_content = Null
  \/ sel # Null /\ last_known_content # Null /\ sel # last_known_content

\* A selection handler that keeps the replaced offer.
OffersKept(cur, offer, live) == live

\* if (current_ps_offer && current_ps_offer != offer)
\*     zwp_primary_selection_offer_v1_destroy(current_ps_offer);
OffersAfterSelection(cur, offer, live) ==
  IF cur # NullOffer /\ cur # offer THEN live \ {cur.id} ELSE live

\* ps_device_handle_data_offer
HandleDataOffer ==
  /\ Dispatching
  /\ Head(wlq).type = "data_offer"
  /\ wlq' = Tail(wlq)
  /\ ps_has_text' = FALSE
  /\ liveOffers' = liveOffers \cup {Head(wlq).offer.id}
  /\ UNCHANGED <<procVars, wpVars, fileVars, owner, xq, nSel, current_ps_offer,
                 last_known_content, got_selection, histVars, readerVars, toolVars>>

\* ps_offer_handle_offer
HandleOffer ==
  /\ Dispatching
  /\ Head(wlq).type = "offer"
  /\ wlq' = Tail(wlq)
  /\ ps_has_text' = IF Head(wlq).mime \in AcceptableMimes THEN TRUE ELSE ps_has_text
  /\ UNCHANGED <<procVars, wpVars, fileVars, owner, xq, nSel, current_ps_offer,
                 last_known_content, got_selection, liveOffers, histVars, readerVars, toolVars>>

\* ps_device_handle_selection with is_daemon_mode set
HandleSelection ==
  /\ Dispatching
  /\ Head(wlq).type = "selection"
  /\ wlq' = Tail(wlq)
  /\ liveOffers' = OffersAfterSelection(current_ps_offer, Head(wlq).offer, liveOffers)
  /\ current_ps_offer' = Head(wlq).offer
  /\ got_selection' = TRUE
  /\ stableX' = NoReread
  /\ LET offer == Head(wlq).offer
         c1 == NextSeq(seq_counter)
     IN  IF offer = NullOffer \/ ~ps_has_text
           THEN /\ EventHandled(IF offer = NullOffer THEN "empty" ELSE "notext")
                /\ IF last_known_content # Null
                     THEN /\ seq_counter' = NextSeq(c1)
                          /\ CallWritePrimary("", NextSeq(c1))
                          /\ last_known_content' = Null
                     ELSE /\ seq_counter' = c1
                          /\ UNCHANGED <<wpVars, last_known_content>>
           ELSE \E sel \in ReadPsOffer(offer) :
                  /\ EventHandled(ReadKind(sel))
                  /\ IF Changed(sel)
                       THEN /\ seq_counter' = NextSeq(c1)
                            /\ CallWritePrimary(Payload(sel), NextSeq(c1))
                            /\ last_known_content' = sel
                       ELSE /\ seq_counter' = c1
                            /\ UNCHANGED <<wpVars, last_known_content>>
  /\ UNCHANGED <<backend, seed, pc, running, exitCode, fileVars, owner, xq, nSel, ps_has_text,
                 firstPub, seqHist, primDone, nTimeouts, readerVars, toolVars>>

\* check_and_update_primary of the Wayland backend, up to the call of
\* write_primary.
WlCheckAndUpdate ==
  IF current_ps_offer = NullOffer \/ ~ps_has_text
    THEN IF last_known_content # Null
           THEN /\ seq_counter' = NextSeq(seq_counter)
                /\ CallWritePrimary("", NextSeq(seq_counter))
                /\ last_known_content' = Null
           ELSE UNCHANGED <<seq_counter, wpVars, last_known_content>>
    ELSE \E sel \in ReadPsOffer(current_ps_offer) :
           /\ seq_counter' = NextSeq(seq_counter)
           /\ CallWritePrimary(Payload(sel), NextSeq(seq_counter))
           /\ last_known_content' = sel

\* A roundtrip has dispatched everything: run_daemon goes on to
\* create_daemon_surface (initial commit, roundtrip, attach and commit,
\* roundtrip) and then to the loop.
RoundtripDone ==
  /\ pc \in {"rt_device", "rt_configure", "rt_map"} /\ Idle
  /\ wlq = <<>>
  /\ pc' = CASE pc = "rt_device" -> "rt_configure"
             [] pc = "rt_configure" -> "rt_map"
             [] pc = "rt_map" -> "loop"
  /\ UNCHANGED <<backend, seed, running, seq_counter, exitCode, wpVars, fileVars, envVars,
                 wlVars, histVars, readerVars, toolVars>>

\* poll(&pfd, 1, 50) returns POLLIN: wl_display_read_events
PollIn ==
  /\ pc = "loop" /\ Idle /\ backend = "wayland"
  /\ running
  /\ wlq # <<>>
  /\ pc' = "dispatch"
  /\ UNCHANGED <<backend, seed, running, seq_counter, exitCode, wpVars, fileVars, envVars,
                 wlVars, histVars, readerVars, toolVars>>

\* wl_display_dispatch_pending has run every listener; back to while (running)
DispatchDone ==
  /\ pc = "dispatch" /\ Idle
  /\ wlq = <<>>
  /\ pc' = "loop"
  /\ UNCHANGED <<backend, seed, running, seq_counter, exitCode, wpVars, fileVars, envVars,
                 wlVars, histVars, readerVars, toolVars>>

\* A timeout branch that never re-reads.
TimeoutRereadsNever == FALSE

\* if (current_ps_offer && ps_has_text) in the timeout branch of the loop
TimeoutRereads == current_ps_offer # NullOffer /\ ps_has_text

\* poll returns 0: wl_display_cancel_read, the re-read of the current offer
\* when there is one with text, and continue.
PollTimeoutStep ==
  /\ pc = "loop" /\ Idle /\ backend = "wayland"
  /\ running
  /\ wlq = <<>>
  /\ nTimeouts < MaxTimeouts
  /\ nTimeouts' = nTimeouts + 1
  /\ IF TimeoutRereads
       THEN /\ stableX' = IF stableX = NoReread THEN primary ELSE stableX
            /\ WlCheckAndUpdate
       ELSE UNCHANGED <<stableX, seq_counter, wpVars, last_known_content>>
  /\ UNCHANGED <<backend, seed, pc, running, exitCode, fileVars, envVars, current_ps_offer,
                 ps_has_text, got_selection, liveOffers, nHandled, evUnpub, evKind, evSeqBefore, firstPub, seqHist,
                 primDone, readerVars, toolVars>>

\* poll returns 0 and the offer is re-read.  (Without a current offer with
\* text the timeout changes nothing.)
PollTimeout == TimeoutRereads /\ PollTimeoutStep

\* wl_display_flush, poll or wl_display_read_events fails, or
\* wl_display_get_error is non-zero: break.
LoopError ==
  /\ pc = "loop" /\ Idle /\ backend = "wayland"
  /\ running
  /\ pc' = "disconnect"
  /\ UNCHANGED <<backend, seed, running, seq_counter, exitCode, wpVars, fileVars, envVars,
                 wlVars, histVars, readerVars, toolVars>>

\* ------------------------------------------------------- environment
\* XFixesSelectSelectionInput has been issued.
XSubscribed ==
  /\ backend # "wayland"
  /\ Serving \/ (backend # "xwayland" /\ pc = "daemonize")

\* X11: a client takes PRIMARY (possibly the same text again) or the
\* selection loses its owner; the server queues an XFixesSelectionNotify.
XOwnerChange ==
  /\ XSubscribed
  /\ nSel < MaxEvents
  /\ Len(xq) < MaxPending
  /\ \E c \in Contents \cup {NoOwner} :
       /\ owner' = c
       /\ xq' = Append(xq, c)
  /\ nSel' = nSel + 1
  /\ UNCHANGED <<procVars, wpVars, fileVars, wlq, wlVars, histVars, readerVars, toolVars>>

PendingSelections == Cardinality({i \in DOMAIN wlq : wlq[i].type = "selection"})

WlEvent(type, offer, mime) == [type |-> type, offer |-> offer, mime |-> mime]

\* Wayland: a client sets the primary selection; the compositor sends
\* data_offer, the offer's MIME type and selection.
WlNewSelection ==
  /\ backend = "wayland" /\ Serving
  /\ nSel < MaxEvents
  /\ PendingSelections < MaxPending
  /\ \E c \in Contents, text \in BOOLEAN :
       LET offer == [id |-> nSel + 1, data |-> c, text |-> text]
           mime == IF text THEN "text/plain;charset=utf-8" ELSE "image/png"
       IN  /\ text \/ c = "a"
           /\ wlq' = wlq \o << WlEvent("data_offer", offer, ""),
                               WlEvent("offer", offer, mime),
                               WlEvent("selection", offer, "") >>
  /\ nSel' = nSel + 1
  /\ UNCHANGED <<procVars, wpVars, fileVars, owner, xq, wlVars, histVars, readerVars, toolVars>>

\* Wayland: the selection is cleared; the compositor sends selection(NULL).
WlClearSelection ==
  /\ backend = "wayland" /\ Serving
  /\ nSel < MaxEvents
  /\ PendingSelections < MaxPending
  /\ wlq' = Append(wlq, WlEvent("selection", NullOffer, ""))
  /\ nSel' = nSel + 1
  /\ UNCHANGED <<procVars, wpVars, fileVars, owner, xq, wlVars, histVars, readerVars, toolVars>>

\* SIGTERM, SIGINT or SIGHUP is delivered: signal_handler
Signal ==
  /\ SignalsInstalled
  /\ running
  /\ running' = FALSE
  /\ UNCHANGED <<backend, seed, pc, seq_counter, exitCode, wpVars, fileVars, envVars, wlVars,
                 histVars, readerVars, toolVars>>

\* ------------------------------------------------------- the shell-side reader
\* The reader polls seq; a changed value makes it read primary.
ReaderPoll ==
  /\ rpc = "poll"
  /\ seqf.st = "val" /\ seqf.v # rLast
  /\ rLast' = seqf.v
  /\ rpc' = "read"
  /\ UNCHANGED <<procVars, wpVars, fileVars, envVars, wlVars, histVars, rTorn, toolVars>>

\* The bytes of primary are not those its writer is writing: the file is
\* open, truncated, and the write has not happened.
PrimaryTorn == fdPrimary /\ primary # wpData

\* The reader reads primary.
ReaderRead ==
  /\ rpc = "read"
  /\ rTorn' = PrimaryTorn
  /\ rpc' = "poll"
  /\ UNCHANGED <<procVars, wpVars, fileVars, envVars, wlVars, histVars, rLast, toolVars>>

\* ------------------------------------------------------- the selection read
\* #define MAX_SELECTION_SIZE (1024 * 1024)
MAX_SELECTION_SIZE == 1048576

\* The literal 4096 of read_fd_with_timeout and read_all_stdin: the count
\* passed to read() and the first capacity.
READ_CHUNK == 4096

\* read() calls of one transfer that return fewer bytes than asked for
MaxShortReads == 2

\* The byte counts such a short read returns.
ShortSizes == {1, 2048, 4095}

\* The payload sizes the selection owner sends.
PayloadLens ==
  {0, 1, READ_CHUNK, MAX_SELECTION_SIZE - READ_CHUNK, MAX_SELECTION_SIZE - 1,
   MAX_SELECTION_SIZE, MAX_SELECTION_SIZE + 1, MAX_SELECTION_SIZE + READ_CHUNK}

Min(a, b) == IF a < b THEN a ELSE b

\* No daemon runs in the directory.
DaemonOff ==
  /\ seed = 1 /\ pc = "off"
  /\ running = TRUE /\ seq_counter = 0
  /\ wp = "idle" /\ wpData = "" /\ wpSeq = 0
  /\ fdPrimary = FALSE /\ fdSeq = FALSE
  /\ primary = Absent /\ seqf = SeqAbsent /\ pidf = FALSE
  /\ owner = NoOwner
  /\ xq = <<>> /\ wlq = <<>> /\ nSel = 0
  /\ current_ps_offer = NullOffer /\ ps_has_text = FALSE
  /\ last_known_content = Null
  /\ got_selection = FALSE /\ liveOffers = {}
  /\ nTimeouts = 0 /\ nHandled = 0 /\ evUnpub = 0
  /\ evKind = "none" /\ evSeqBefore = SeqAbsent
  /\ firstPub = NoPub /\ seqHist = <<>> /\ primDone = {}
  /\ stableX = NoReread
  /\ rpc = "poll" /\ rLast = 0 /\ rTorn = FALSE

\* One PRIMARY read: the routine and the size of the owner's payload.  The
\* bytes read are consecutive bytes of the payload, so the result is the
\* payload prefix of length total.
InitRead ==
  /\ DaemonOff /\ CopyOff /\ OneOff /\ SurfOff /\ MimeOff /\ ArgOff /\ XrOff /\ ShOff /\ RaceOff
  /\ backend = "wayland" /\ exitCode = -1
  /\ reader \in {"wayland", "x11"}
  /\ payloadLen \in PayloadLens
  /\ rd_pc = "start"
  /\ max_size = MAX_SELECTION_SIZE
  /\ total = 0 /\ capacity = 0 /\ nShort = 0

\* capacity = capacity ? capacity * 2 : 4096
GrowCapacity(c) == IF c # 0 THEN c * 2 ELSE READ_CHUNK

\* read_ps_offer: pipe, receive, flush, close of the write end; then
\* read_fd_with_timeout(fds[0], out_len, MAX_SELECTION_SIZE, 500).
ReadPsOfferStart ==
  /\ rd_pc = "start" /\ reader = "wayland"
  /\ rd_pc' = "poll"
  /\ UNCHANGED <<daemonVars, copyVars, oneVars, surfVars, mimeVars, argVars, xrVars, shVars, raceVars, reader, payloadLen, max_size, total, capacity, nShort>>

\* poll reports POLLHUP without POLLIN (the owner has written everything
\* and closed the pipe): break.
RdHup ==
  /\ rd_pc = "poll"
  /\ payloadLen = total
  /\ rd_pc' = "done"
  /\ UNCHANGED <<daemonVars, copyVars, oneVars, surfVars, mimeVars, argVars, xrVars, shVars, raceVars, reader, payloadLen, max_size, total, capacity, nShort>>

\* POLLIN, total + 4096 > capacity and the doubled capacity exceeds
\* max_size: break.
RdCapBreak ==
  /\ rd_pc = "poll"
  /\ payloadLen > total
  /\ total + READ_CHUNK > capacity
  /\ GrowCapacity(capacity) > max_size
  /\ capacity' = GrowCapacity(capacity)
  /\ rd_pc' = "done"
  /\ UNCHANGED <<daemonVars, copyVars, oneVars, surfVars, mimeVars, argVars, xrVars, shVars, raceVars, reader, payloadLen, max_size, total, nShort>>

\* POLLIN: grow the buffer when needed, then n = read(fd, buf + total, 4096);
\* total += n.  read returns what the pipe holds, at most 4096 bytes.
RdRead ==
  /\ rd_pc = "poll"
  /\ payloadLen > total
  /\ LET grow == total + READ_CHUNK > capacity
         cap == IF grow THEN GrowCapacity(capacity) ELSE capacity
     IN  /\ cap <= max_size
         /\ capacity' = cap
  /\ \/ /\ total' = total + Min(payloadLen - total, READ_CHUNK)
        /\ UNCHANGED nShort
     \/ /\ nShort < MaxShortReads
        /\ \E n \in ShortSizes :
             /\ n < payloadLen - total
             /\ total' = total + n
        /\ nShort' = nShort + 1
  /\ UNCHANGED <<daemonVars, copyVars, oneVars, surfVars, mimeVars, argVars, xrVars, shVars, raceVars, reader, payloadLen, max_size, rd_pc>>

\* get_primary_selection / read_selection of the X11 monitors:
\* XGetWindowProperty(..., 0, MAX_SELECTION_SIZE / 4, ...) returns at most
\* MAX_SELECTION_SIZE / 4 32-bit units of the property; nitems bytes are
\* copied.
XGetWindowProperty ==
  /\ rd_pc = "start" /\ reader = "x11"
  /\ total' = Min(payloadLen, 4 * (MAX_SELECTION_SIZE \div 4))
  /\ rd_pc' = "done"
  /\ UNCHANGED <<daemonVars, copyVars, oneVars, surfVars, mimeVars, argVars, xrVars, shVars, raceVars, reader, payloadLen, max_size, capacity, nShort>>

\* ------------------------------------------------------- copy-clipboard
\* #define MAX_CLIPBOARD_SIZE (4 * 1024 * 1024)
MAX_CLIPBOARD_SIZE == 4194304

\* while (running && timeout_count < 500): the number of 100 ms ticks
\* after which the X11 child gives up, 500 in the source.  The loop treats
\* every count below the limit alike, so the model runs with a small limit.
TimeoutTicks == 3

\* paste requests other clients make during one run
MaxRequests == 2

\* events queued for the child and not yet handled
MaxCopyPending == 2

\* The backends that have a copy-clipboard mode.
CopyBackends == {"wayland", "x11", "xwayland"}

\* The sizes of standard input.
StdinLens ==
  {0, 1, MAX_SELECTION_SIZE + 1, MAX_CLIPBOARD_SIZE, MAX_CLIPBOARD_SIZE + 1}

\* The positions of the forked child.
ChildPcs == {"child_setup", "loop", "drain", "sleep", "sending"}

\* The positions inside the serve loop.
ServePcs == {"loop", "drain", "sleep", "sending"}

\* copy-clipboard starts: read_all_stdin with capacity = 4096, total = 0.
InitCopy ==
  /\ DaemonOff /\ OneOff /\ SurfOff /\ MimeOff /\ ArgOff /\ XrOff /\ ShOff /\ RaceOff
  /\ backend \in CopyBackends /\ exitCode = -1
  /\ reader = "none" /\ payloadLen = 0 /\ rd_pc = "off" /\ max_size = 0
  /\ total = 0 /\ capacity = READ_CHUNK /\ nShort = 0
  /\ cc_pc = "read_stdin"
  /\ stdinLen \in StdinLens
  /\ data_len = 0
  /\ timeout_count = 0 /\ selection_served = FALSE
  /\ selection_request_received = FALSE
  /\ copy_done = FALSE /\ copy_source = FALSE
  /\ hupDisp = "default"
  /\ clipOwner \in {"none", "other"} /\ cq = <<>> /\ nReq = 0
  /\ ownIssued = FALSE /\ forked = FALSE /\ getOut = -1
  /\ clearHandled = FALSE /\ answeredAfterClear = FALSE
  /\ idleTicks = 0 /\ hupEffect = "none"
  /\ sigTerm = FALSE /\ termPasses = 0
  /\ lastReply = NoReply
  /\ copyWin = "none" /\ copyConn = (backend # "wayland")
  /\ ownerChecked = "unchecked" /\ dataFreed = FALSE

\* The child of a copy-clipboard of one byte, right after fork(): the
\* parent has called _exit(0), the child owns CLIPBOARD.
InitServe ==
  /\ DaemonOff /\ OneOff /\ SurfOff /\ MimeOff /\ ArgOff /\ XrOff /\ ShOff /\ RaceOff
  /\ backend \in CopyBackends /\ exitCode = 0
  /\ reader = "none" /\ payloadLen = 0 /\ rd_pc = "off" /\ max_size = 0
  /\ total = 1 /\ capacity = READ_CHUNK /\ nShort = 0
  /\ cc_pc = "child_setup"
  /\ stdinLen = 1 /\ data_len = 1
  /\ timeout_count = 0 /\ selection_served = FALSE
  /\ selection_request_received = FALSE
  /\ copy_done = FALSE /\ copy_source = (backend = "wayland")
  /\ hupDisp = "default"
  /\ clipOwner = "server" /\ cq = <<>> /\ nReq = 0
  /\ ownIssued = TRUE /\ forked = TRUE /\ getOut = -1
  /\ clearHandled = FALSE /\ answeredAfterClear = FALSE
  /\ idleTicks = 0 /\ hupEffect = "none"
  /\ sigTerm = FALSE /\ termPasses = 0
  /\ lastReply = NoReply
  /\ copyWin = (IF backend = "wayland" THEN "none" ELSE "live") /\ copyConn = TRUE
  /\ ownerChecked = (IF backend = "wayland" THEN "unchecked" ELSE "own")
  /\ dataFreed = FALSE

\* The limit read_all_stdin compares capacity with: MAX_CLIPBOARD_SIZE in
\* the Wayland program, MAX_SELECTION_SIZE in the two X11 programs.
StdinCap == IF backend = "wayland" THEN MAX_CLIPBOARD_SIZE ELSE MAX_SELECTION_SIZE

\* A read_all_stdin whose buffer never grows.
KeepCapacity(c) == c

\* capacity *= 2
DoubleCapacity(c) == c * 2

\* read_all_stdin: total + 4096 > capacity, capacity *= 2 exceeds the
\* limit: break; the bytes read so far are returned.
StdinCapBreak ==
  /\ cc_pc = "read_stdin"
  /\ total + READ_CHUNK > capacity
  /\ DoubleCapacity(capacity) > StdinCap
  /\ capacity' = DoubleCapacity(capacity)
  /\ data_len' = total
  /\ cc_pc' = "check"
  /\ UNCHANGED <<backend, running, exitCode, toolFrame, reader, payloadLen, rd_pc, max_size,
                 total, nShort, stdinLen, timeout_count, selection_served,
                 selection_request_received, copy_done, copy_source, hupDisp, copyEnv, copyHist>>

\* read_all_stdin: n = read(STDIN_FILENO, buf + total, 4096) with n > 0.
StdinRead ==
  /\ cc_pc = "read_stdin"
  /\ stdinLen > total
  /\ LET cap == IF total + READ_CHUNK > capacity THEN DoubleCapacity(capacity) ELSE capacity
     IN  /\ cap <= StdinCap
         /\ capacity' = cap
  /\ \/ /\ total' = total + Min(stdinLen - total, READ_CHUNK)
        /\ UNCHANGED nShort
     \/ /\ nShort < MaxShortReads
        /\ \E n \in ShortSizes :
             /\ n < stdinLen - total
             /\ total' = total + n
        /\ nShort' = nShort + 1
  /\ UNCHANGED <<backend, running, exitCode, toolFrame, reader, payloadLen, rd_pc, max_size,
                 copyState, copyEnv, copyHist>>

\* read_all_stdin: read returns 0 at end of input: break.
StdinEof ==
  /\ cc_pc = "read_stdin"
  /\ stdinLen = total
  /\ LET cap == IF total + READ_CHUNK > capacity THEN DoubleCapacity(capacity) ELSE capacity
     IN  /\ cap <= StdinCap
         /\ capacity' = cap
  /\ data_len' = total
  /\ cc_pc' = "check"
  /\ UNCHANGED <<backend, running, exitCode, toolFrame, reader, payloadLen, rd_pc, max_size,
                 total, nShort, stdinLen, timeout_count, selection_served,
                 selection_request_received, copy_done, copy_source, hupDisp, copyEnv, copyHist>>

\* A copy-clipboard that accepts empty input.
EmptyInputAccepted(len) == FALSE

\* if (!data || data_len == 0)
EmptyInput(len) == len = 0

\* run_copy_clipboard after read_all_stdin: free(data) and return 1 on
\* empty input; main of the X11 programs then closes the display.
CopyCheck ==
  /\ cc_pc = "check"
  /\ IF EmptyInput(data_len)
       THEN /\ exitCode' = 1
            /\ cc_pc' = "returned"
            /\ dataFreed' = TRUE
            /\ copyConn' = FALSE
       ELSE /\ cc_pc' = "own"
            /\ UNCHANGED <<exitCode, dataFreed, copyConn>>
  /\ UNCHANGED <<backend, running, copyFrame, readVars, stdinLen, data_len, timeout_count,
                 selection_served, selection_request_received, copy_done, copy_source,
                 hupDisp, copyEnv, copyHist, copyWin, ownerChecked>>

\* A run_copy_clipboard that forks without asking who owns CLIPBOARD.
OwnershipAssumed(got) == TRUE

\* XGetSelectionOwner(dpy, xa_clipboard) != w is false
OwnershipVerified(got) == got = "server"

\* X11: XCreateSimpleWindow, XSetSelectionOwner, then XGetSelectionOwner:
\* free(data), XDestroyWindow and return 1 if another client has taken
\* CLIPBOARD in between; main then closes the display.
\* Wayland: wayland_connect and the globals (free, return 1 if that fails),
\* then create_data_source, offer, set_selection.
CopyOwn ==
  /\ cc_pc = "own"
  /\ \E fails \in BOOLEAN :
       IF backend = "wayland"
         THEN /\ UNCHANGED <<copyWin, ownerChecked>>
              /\ IF fails
                   THEN /\ exitCode' = 1 /\ cc_pc' = "returned"
                        /\ dataFreed' = TRUE
                        /\ UNCHANGED <<ownIssued, clipOwner, copy_source, copyConn>>
                   ELSE /\ ownIssued' = TRUE /\ clipOwner' = "server"
                        /\ copy_source' = TRUE
                        /\ copyConn' = TRUE
                        /\ cc_pc' = "fork"
                        /\ UNCHANGED <<exitCode, dataFreed>>
         ELSE /\ ownIssued' = TRUE
              /\ UNCHANGED copy_source
              /\ clipOwner' = IF fails THEN "other" ELSE "server"
              /\ ownerChecked' = IF clipOwner' = "server" THEN "own" ELSE "other"
              /\ IF OwnershipVerified(clipOwner')
                   THEN /\ copyWin' = "live"
                        /\ cc_pc' = "fork"
                        /\ UNCHANGED <<exitCode, dataFreed, copyConn>>
                   ELSE /\ copyWin' = "destroyed"
                        /\ dataFreed' = TRUE
                        /\ copyConn' = FALSE
                        /\ exitCode' = 1 /\ cc_pc' = "returned"
  /\ UNCHANGED <<backend, running, copyFrame, lastReply, readVars, stdinLen, data_len,
                 timeout_count, selection_served, selection_request_received, copy_done,
                 hupDisp, cq, nReq, forked, getOut, clearHandled, answeredAfterClear,
                 idleTicks, hupEffect, sigTerm, termPasses>>

\* A parent that tears down what it created before it exits.
ParentReleasesAll == {"window", "source", "connection"}

\* if (pid > 0) { _exit(0); }: the handles the parent releases after fork.
ParentReleases == {}

\* The process ends: XDestroyWindow / wayland_disconnect give up the
\* selection if the process still owns it.
OwnerAfterExit == IF clipOwner = "server" THEN "none" ELSE clipOwner

\* fork(): pid < 0: free, XDestroyWindow / wayland_disconnect, return 1.
\* Otherwise the parent calls _exit(0) and the child goes on.
CopyFork ==
  /\ cc_pc = "fork"
  /\ \E pid \in {-1, 1} :
       IF pid < 0
         THEN /\ exitCode' = 1
              /\ cc_pc' = "returned"
              /\ dataFreed' = TRUE
              /\ copyWin' = IF backend = "wayland" THEN copyWin ELSE "destroyed"
              /\ copy_source' = FALSE
              /\ copyConn' = FALSE
              /\ clipOwner' = OwnerAfterExit
              /\ UNCHANGED forked
         ELSE /\ forked' = TRUE
              /\ exitCode' = 0
              /\ cc_pc' = "child_setup"
              /\ copyWin' = IF "window" \in ParentReleases /\ backend # "wayland"
                              THEN "destroyed" ELSE copyWin
              /\ copy_source' = IF "source" \in ParentReleases /\ backend = "wayland"
                                  THEN FALSE ELSE copy_source
              /\ copyConn' = IF "connection" \in ParentReleases THEN FALSE ELSE copyConn
              /\ clipOwner' = IF ParentReleases \cap {"window", "source"} # {}
                                THEN OwnerAfterExit ELSE clipOwner
              /\ UNCHANGED dataFreed
  /\ UNCHANGED <<backend, running, copyFrame, lastReply, readVars, stdinLen, data_len,
                 timeout_count, selection_served, selection_request_received, copy_done,
                 hupDisp, cq, nReq, ownIssued, ownerChecked, getOut, clearHandled,
                 answeredAfterClear, idleTicks, hupEffect, sigTerm, termPasses>>

\* A child that handles SIGHUP like the daemon does.
HupHandled == "handler"

\* signal(SIGHUP, SIG_IGN)
HupDisposition == "ignore"

\* The child: setsid, the three signal() calls, close of the standard
\* descriptors, timeout_count = 0, selection_served = false.
ChildSetup ==
  /\ cc_pc = "child_setup"
  /\ hupDisp' = HupDisposition
  /\ timeout_count' = 0
  /\ selection_served' = FALSE
  /\ cc_pc' = "loop"
  /\ UNCHANGED <<backend, running, exitCode, toolFrame, readVars, stdinLen, data_len,
                 selection_request_received, copy_done, copy_source, copyEnv, copyHist>>

\* while (running && timeout_count < 500)   (X11)
\* while (running && !copy_done)            (Wayland)
CopyLoopTest ==
  /\ cc_pc = "loop"
  /\ LET pass == IF backend = "wayland"
                   THEN running /\ ~copy_done
                   ELSE running /\ timeout_count < TimeoutTicks
     IN  IF pass
           THEN /\ cc_pc' = IF backend = "wayland" THEN "sleep" ELSE "drain"
                /\ termPasses' = IF sigTerm THEN 1 ELSE termPasses
                /\ UNCHANGED clipOwner
           ELSE /\ cc_pc' = "child_exit"
                /\ clipOwner' = OwnerAfterExit
                /\ UNCHANGED termPasses
  /\ UNCHANGED <<backend, running, exitCode, toolFrame, readVars, stdinLen, data_len,
                 timeout_count, selection_served, selection_request_received, copy_done,
                 copy_source, hupDisp, cq, nReq, ownIssued, forked, getOut, clearHandled,
                 answeredAfterClear, idleTicks, hupEffect, sigTerm>>

\* The targets a requestor may name: the three the server knows and one
\* it does not.
RequestTargets == {"TARGETS", "UTF8_STRING", "STRING", "image/png"}

\* req->target == xa_utf8_string || req->target == XA_STRING
TextTargets == {"UTF8_STRING", "STRING"}

\* A handler that writes the buffer for every target but TARGETS.
SelectionReplyAnyTarget(target, len) ==
  IF target = "TARGETS"
    THEN [target |-> target, property |-> "requested", type |-> "ATOM",
          value |-> {"TARGETS", "UTF8_STRING", "STRING"}, len |-> 3, sent |-> 1]
    ELSE [target |-> target, property |-> "requested", type |-> target,
          value |-> {"data"}, len |-> len, sent |-> 1]

\* handle_selection_request: the property it writes on the requestor's
\* window (type, value, number of items) and the property field of the one
\* SelectionNotify it sends.
SelectionReply(target, len) ==
  IF target = "TARGETS"
    THEN [target |-> target, property |-> "requested", type |-> "ATOM",
          value |-> {"TARGETS", "UTF8_STRING", "STRING"}, len |-> 3, sent |-> 1]
    ELSE IF target \in TextTargets
           THEN [target |-> target, property |-> "requested", type |-> target,
                 value |-> {"data"}, len |-> len, sent |-> 1]
           ELSE [target |-> target, property |-> "None", type |-> "",
                 value |-> {}, len |-> 0, sent |-> 1]

\* The bytes get_selection returns for a property of n bytes:
\* XGetWindowProperty(..., 0, MAX_SELECTION_SIZE / 4, ...).
XGetSelectionBytes(n) == Min(n, 4 * (MAX_SELECTION_SIZE \div 4))

\* X11: XNextEvent returns a SelectionRequest; handle_selection_request
\* answers it (TARGETS with the atom list, UTF8_STRING with the data).
\* A get-clipboard that asked for UTF8_STRING then reads the property and
\* writes it to its standard output.
XServeRequest ==
  /\ cc_pc = "drain" /\ backend \in X11Backends
  /\ cq # <<>> /\ Head(cq) \in RequestTargets
  /\ cq' = Tail(cq)
  /\ lastReply' = SelectionReply(Head(cq), data_len)
  /\ IF backend = "x11"
       THEN /\ selection_served' = TRUE
            /\ timeout_count' = 0
            /\ UNCHANGED selection_request_received
       ELSE /\ selection_request_received' =
                 IF Head(cq) \in TextTargets THEN TRUE ELSE selection_request_received
            /\ UNCHANGED <<selection_served, timeout_count>>
  /\ getOut' = IF Head(cq) \in TextTargets THEN XGetSelectionBytes(data_len) ELSE getOut
  /\ answeredAfterClear' = (answeredAfterClear \/ clearHandled)
  /\ idleTicks' = 0
  /\ UNCHANGED <<backend, running, exitCode, copyFrame, readVars, cc_pc, stdinLen, data_len,
                 copy_done, copy_source, hupDisp, clipOwner, nReq, ownIssued, forked,
                 clearHandled, hupEffect, sigTerm, termPasses, parentVars>>

\* A handler of the ownership loss that lets the serve loop go on.
StopsOnClearNot == FALSE

\* SelectionClear: running = 0; break.   cancelled: copy_done = true.
StopsOnClear == TRUE

\* X11: XNextEvent returns SelectionClear: running = 0; break; then
\* if (!running) break leaves the serve loop.
XServeClear ==
  /\ cc_pc = "drain" /\ backend \in X11Backends
  /\ cq # <<>> /\ Head(cq) = "SelectionClear"
  /\ cq' = Tail(cq)
  /\ running' = IF StopsOnClear THEN FALSE ELSE running
  /\ clearHandled' = TRUE
  /\ IF running'
       THEN cc_pc' = "sleep" /\ UNCHANGED clipOwner
       ELSE cc_pc' = "child_exit" /\ clipOwner' = OwnerAfterExit
  /\ UNCHANGED <<backend, exitCode, toolFrame, readVars, stdinLen, data_len, timeout_count,
                 selection_served, selection_request_received, copy_done, copy_source,
                 hupDisp, nReq, ownIssued, forked, getOut, answeredAfterClear, idleTicks,
                 hupEffect, sigTerm, termPasses>>

\* X11: XPending is 0: if (!running) break; otherwise on to usleep.
XDrainDone ==
  /\ cc_pc = "drain" /\ backend \in X11Backends
  /\ cq = <<>>
  /\ IF running
       THEN cc_pc' = "sleep" /\ UNCHANGED clipOwner
       ELSE cc_pc' = "child_exit" /\ clipOwner' = OwnerAfterExit
  /\ UNCHANGED <<backend, running, exitCode, toolFrame, readVars, stdinLen, data_len,
                 timeout_count, selection_served, selection_request_received, copy_done,
                 copy_source, hupDisp, cq, nReq, copyHist>>

\* X11: usleep(100000) returns; the timeout accounting.
\* x11:      if (!selection_served) timeout_count++;
\* xwayland: if (selection_request_received) { timeout_count = 0; flag = false; }
\*           else timeout_count++;
XSleepTick ==
  /\ cc_pc = "sleep" /\ backend \in X11Backends
  /\ IF backend = "x11"
       THEN /\ timeout_count' = IF ~selection_served THEN timeout_count + 1 ELSE timeout_count
            /\ UNCHANGED selection_request_received
       ELSE /\ timeout_count' = IF selection_request_received THEN 0 ELSE timeout_count + 1
            /\ selection_request_received' = FALSE
  /\ idleTicks' = Min(idleTicks + 1, TimeoutTicks + 2)
  /\ cc_pc' = "loop"
  /\ UNCHANGED <<backend, running, exitCode, toolFrame, readVars, stdinLen, data_len,
                 selection_served, copy_done, copy_source, hupDisp, copyEnv, ownIssued,
                 forked, getOut, clearHandled, answeredAfterClear, hupEffect, sigTerm,
                 termPasses>>

\* Wayland: poll(&pfd, 1, 5000) reports POLLIN; wl_display_read_events and
\* wl_display_dispatch_pending follow.
WlCopyPollIn ==
  /\ cc_pc = "sleep" /\ backend = "wayland"
  /\ cq # <<>>
  /\ cc_pc' = "drain"
  /\ UNCHANGED <<backend, running, exitCode, toolFrame, readVars, stdinLen, data_len,
                 timeout_count, selection_served, selection_request_received, copy_done,
                 copy_source, hupDisp, copyEnv, copyHist>>

\* Wayland: poll returns 0 after 5000 ms, or -1 with EINTR: continue.
WlCopyPollTimeout ==
  /\ cc_pc = "sleep" /\ backend = "wayland"
  /\ cq = <<>>
  /\ cc_pc' = "loop"
  /\ UNCHANGED <<backend, running, exitCode, toolFrame, readVars, stdinLen, data_len,
                 timeout_count, selection_served, selection_request_received, copy_done,
                 copy_source, hupDisp, copyEnv, copyHist>>

\* Wayland: flush, poll or read_events fails, or wl_display_get_error is
\* non-zero: break.
WlCopyError ==
  /\ cc_pc = "sleep" /\ backend = "wayland"
  /\ cc_pc' = "child_exit"
  /\ clipOwner' = OwnerAfterExit
  /\ UNCHANGED <<backend, running, exitCode, toolFrame, readVars, stdinLen, data_len,
                 timeout_count, selection_served, selection_request_received, copy_done,
                 copy_source, hupDisp, cq, nReq, copyHist>>

\* Wayland: ds_handle_send writes copy_data to the requester's pipe.  The
\* requester (get-clipboard: read_clip_offer) reads it with
\* read_fd_with_timeout(fd, &len, MAX_CLIPBOARD_SIZE, 500).
DsHandleSend ==
  /\ cc_pc = "drain" /\ backend = "wayland"
  /\ cq # <<>> /\ Head(cq) = "send"
  /\ copy_source
  /\ cq' = Tail(cq)
  /\ cc_pc' = "sending"
  /\ reader' = "clip" /\ payloadLen' = data_len /\ rd_pc' = "poll"
  /\ max_size' = MAX_CLIPBOARD_SIZE
  /\ total' = 0 /\ capacity' = 0 /\ nShort' = 0
  /\ answeredAfterClear' = (answeredAfterClear \/ clearHandled)
  /\ idleTicks' = 0
  /\ UNCHANGED <<backend, running, exitCode, toolFrame, stdinLen, data_len, timeout_count,
                 selection_served, selection_request_received, copy_done, copy_source,
                 hupDisp, clipOwner, nReq, ownIssued, forked, getOut, clearHandled,
                 hupEffect, sigTerm, termPasses>>

\* Wayland: the requester's read has ended; it writes what it read to its
\* standard output and closes the pipe.  A child that is still writing
\* then receives SIGPIPE, which it has not caught.
DsSendDone ==
  /\ cc_pc = "sending" /\ rd_pc = "done"
  /\ getOut' = IF total > 0 THEN total ELSE getOut
  /\ rd_pc' = "off"
  /\ \E sigpipe \in BOOLEAN :
       /\ sigpipe => total < payloadLen
       /\ IF sigpipe
            THEN cc_pc' = "child_exit" /\ clipOwner' = OwnerAfterExit
            ELSE cc_pc' = "drain" /\ UNCHANGED clipOwner
  /\ UNCHANGED <<backend, running, exitCode, toolFrame, reader, payloadLen, max_size, total,
                 capacity, nShort, stdinLen, data_len, timeout_count, selection_served,
                 selection_request_received, copy_done, copy_source, hupDisp, cq, nReq,
                 ownIssued, forked, clearHandled, answeredAfterClear, idleTicks, hupEffect,
                 sigTerm, termPasses>>

\* Wayland: ds_handle_cancelled: wl_data_source_destroy; copy_source = NULL;
\* copy_done = true.
DsHandleCancelled ==
  /\ cc_pc = "drain" /\ backend = "wayland"
  /\ cq # <<>> /\ Head(cq) = "cancelled"
  /\ copy_source
  /\ cq' = Tail(cq)
  /\ copy_source' = FALSE
  /\ copy_done' = IF StopsOnClear THEN TRUE ELSE copy_done
  /\ clearHandled' = TRUE
  /\ UNCHANGED <<backend, running, exitCode, toolFrame, readVars, cc_pc, stdinLen, data_len,
                 timeout_count, selection_served, selection_request_received, hupDisp,
                 clipOwner, nReq, ownIssued, forked, getOut, answeredAfterClear, idleTicks,
                 hupEffect, sigTerm, termPasses>>

\* Wayland: an event for the destroyed data source is dropped by
\* libwayland, no listener runs.
WlDropEvent ==
  /\ cc_pc = "drain" /\ backend = "wayland"
  /\ cq # <<>>
  /\ ~copy_source
  /\ cq' = Tail(cq)
  /\ UNCHANGED <<backend, running, exitCode, toolFrame, readVars, copyState, clipOwner, nReq,
                 copyHist>>

\* Wayland: wl_display_dispatch_pending has run every listener.
WlDrainDone ==
  /\ cc_pc = "drain" /\ backend = "wayland"
  /\ cq = <<>>
  /\ cc_pc' = "loop"
  /\ UNCHANGED <<backend, running, exitCode, toolFrame, readVars, stdinLen, data_len,
                 timeout_count, selection_served, selection_request_received, copy_done,
                 copy_source, hupDisp, copyEnv, copyHist>>

\* Another client asks the child for the clipboard: X11 XConvertSelection
\* (UTF8_STRING as get-clipboard does, or TARGETS), Wayland receive.  A
\* request can also reach the child after it lost the selection (X11: an
\* event sent with XSendEvent).
ClipRequest ==
  /\ cc_pc \in ChildPcs
  /\ nReq < MaxRequests
  /\ Len(cq) < MaxCopyPending
  /\ \E t \in IF backend = "wayland" THEN {"send"} ELSE {"UTF8_STRING", "TARGETS"} :
       cq' = Append(cq, t)
  /\ nReq' = nReq + 1
  /\ UNCHANGED <<backend, running, exitCode, toolFrame, readVars, copyState, clipOwner,
                 copyHist>>

\* Another client asks for the clipboard as STRING or in a form the
\* server does not offer.
ClipRequestOther ==
  /\ cc_pc \in ChildPcs /\ backend \in X11Backends
  /\ nReq < MaxRequests
  /\ Len(cq) < MaxCopyPending
  /\ \E t \in {"STRING", "image/png"} : cq' = Append(cq, t)
  /\ nReq' = nReq + 1
  /\ UNCHANGED <<backend, running, exitCode, toolFrame, readVars, copyState, clipOwner,
                 copyHist>>

\* Another client takes CLIPBOARD: the child is sent SelectionClear (X11)
\* or cancelled (Wayland).
OtherTakesClipboard ==
  /\ cc_pc \in ChildPcs
  /\ clipOwner = "server"
  /\ Len(cq) < MaxCopyPending
  /\ clipOwner' = "other"
  /\ cq' = Append(cq, IF backend = "wayland" THEN "cancelled" ELSE "SelectionClear")
  /\ UNCHANGED <<backend, running, exitCode, toolFrame, readVars, copyState, nReq, copyHist>>

\* SIGHUP is delivered to the child: by its disposition it ends the
\* process, is ignored, or runs signal_handler.
CopySigHup ==
  /\ cc_pc \in ChildPcs
  /\ hupEffect = "none"
  /\ CASE hupDisp = "default" ->
            /\ hupEffect' = IF cc_pc \in ServePcs THEN "killed" ELSE "killed_setup"
            /\ cc_pc' = "child_exit"
            /\ clipOwner' = OwnerAfterExit
            /\ UNCHANGED running
       [] hupDisp = "ignore" ->
            /\ hupEffect' = "ignored"
            /\ UNCHANGED <<cc_pc, clipOwner, running>>
       [] hupDisp = "handler" ->
            /\ hupEffect' = "stopped"
            /\ running' = FALSE
            /\ UNCHANGED <<cc_pc, clipOwner>>
  /\ UNCHANGED <<backend, exitCode, toolFrame, readVars, stdinLen, data_len, timeout_count,
                 selection_served, selection_request_received, copy_done, copy_source,
                 hupDisp, cq, nReq, ownIssued, forked, getOut, clearHandled,
                 answeredAfterClear, idleTicks, sigTerm, termPasses>>

\* SIGTERM or SIGINT is delivered to the child in its serve loop:
\* signal_handler sets running = 0.
CopySigTerm ==
  /\ cc_pc \in ServePcs
  /\ ~sigTerm
  /\ running' = FALSE
  /\ sigTerm' = TRUE
  /\ UNCHANGED <<backend, exitCode, toolFrame, readVars, copyState, copyEnv, ownIssued,
                 forked, getOut, clearHandled, answeredAfterClear, idleTicks, hupEffect,
                 termPasses>>

\* ------------------------------------------------------- one-shot mode
\* while (!got_selection && attempts < 50)
PopupAttempts == 50

\* The events the compositor holds for a newly created device when a
\* client owns the selection with text c (text) or without a text type.
OfferEvents(c, text) ==
  LET offer == [id |-> 1, data |-> c, text |-> text]
      mime == IF text THEN "text/plain" ELSE "image/png"
  IN  << WlEvent("data_offer", offer, ""),
         WlEvent("offer", offer, mime),
         WlEvent("selection", offer, "") >>

\* What the compositor sends to the one-shot's device: nothing, a NULL
\* selection (the state after clear-primary), or the current owner's offer.
OneshotEvents ==
  {<<>>, << WlEvent("selection", NullOffer, "") >>}
    \cup {OfferEvents(c, text) : c \in Contents, text \in BOOLEAN}

\* The selection holds text bytes a reader could be given.
TextOnOffer(q) == q # <<>> /\ q[Len(q)].offer.text

\* A process started with --oneshot, at the entry of run_oneshot /
\* oneshot_mode, and the state of PRIMARY it finds.
InitOneshot ==
  /\ ReadOff /\ CopyOff /\ SurfOff /\ MimeOff /\ ArgOff /\ XrOff /\ ShOff /\ RaceOff
  /\ backend \in Backends
  /\ seed = 1 /\ pc = "os_start"
  /\ running = TRUE /\ seq_counter = 0 /\ exitCode = -1
  /\ wp = "idle" /\ wpData = "" /\ wpSeq = 0
  /\ fdPrimary = FALSE /\ fdSeq = FALSE
  /\ primary = Absent /\ seqf = SeqAbsent /\ pidf = FALSE
  /\ owner \in (IF backend = "wayland" THEN {NoOwner} ELSE Contents \cup {NoOwner})
  /\ wlq \in (IF backend = "wayland" THEN OneshotEvents ELSE {<<>>})
  /\ xq = <<>> /\ nSel = 0
  /\ current_ps_offer = NullOffer /\ ps_has_text = FALSE
  /\ last_known_content = Null
  /\ got_selection = FALSE /\ liveOffers = {}
  /\ nTimeouts = 0 /\ nHandled = 0 /\ evUnpub = 0
  /\ evKind = "none" /\ evSeqBefore = SeqAbsent
  /\ firstPub = NoPub /\ seqHist = <<>> /\ primDone = {}
  /\ stableX = NoReread
  /\ rpc = "poll" /\ rLast = 0 /\ rTorn = FALSE
  /\ attempts = 0 /\ have_cache = FALSE
  /\ cache_dir_arg \in {"none", "ok", "bad"}
  /\ gated \in (IF backend = "wayland" THEN BOOLEAN ELSE {FALSE})
  /\ canPopup \in (IF backend = "wayland" THEN BOOLEAN ELSE {FALSE})
  /\ os_out = ""
  /\ selAvail = IF backend = "wayland" THEN TextOnOffer(wlq) ELSE owner # NoOwner
  /\ os_surface = FALSE /\ os_receives = 0

\* What no step of the one-shot changes.
oneFrame0 == <<backend, seed, running, fileVars, owner, xq, nSel, last_known_content, histVars,
               readerVars, readVars, copyVars, surfVars, mimeVars, argVars, xrVars, shVars, raceVars,
               cache_dir_arg, gated, canPopup, selAvail>>

\* What only the surface creation and the read of the offer change.
oneFrame == <<oneFrame0, os_surface, os_receives>>

\* run_oneshot (Wayland): wayland_connect, the ps_manager / seat test,
\* get_device, add_listener, got_selection = false.
OsConnect ==
  /\ pc = "os_start" /\ backend = "wayland"
  /\ \E ok \in BOOLEAN :
       IF ok
         THEN /\ pc' = "os_rt1"
              /\ got_selection' = FALSE
              /\ UNCHANGED exitCode
         ELSE /\ pc' = "os_done"
              /\ exitCode' = 1
              /\ UNCHANGED got_selection
  /\ UNCHANGED <<oneFrame, seq_counter, wpVars, wlq, current_ps_offer, ps_has_text, liveOffers,
                 attempts, have_cache, os_out>>

\* Queued events reach the listeners in the first roundtrip (unless the
\* compositor withholds them from an unfocused client) and in
\* wl_display_dispatch_pending of the popup loop.
OsDispatching ==
  /\ Idle /\ wlq # <<>>
  /\ (pc = "os_rt1" /\ ~gated) \/ pc = "os_dispatch"

\* ps_device_handle_data_offer
OsHandleDataOffer ==
  /\ OsDispatching
  /\ Head(wlq).type = "data_offer"
  /\ wlq' = Tail(wlq)
  /\ ps_has_text' = FALSE
  /\ liveOffers' = liveOffers \cup {Head(wlq).offer.id}
  /\ UNCHANGED <<oneFrame, pc, exitCode, seq_counter, wpVars, current_ps_offer, got_selection,
                 attempts, have_cache, os_out>>

\* ps_offer_handle_offer
OsHandleOffer ==
  /\ OsDispatching
  /\ Head(wlq).type = "offer"
  /\ wlq' = Tail(wlq)
  /\ ps_has_text' = IF Head(wlq).mime \in AcceptableMimes THEN TRUE ELSE ps_has_text
  /\ UNCHANGED <<oneFrame, pc, exitCode, seq_counter, wpVars, current_ps_offer, got_selection,
                 liveOffers, attempts, have_cache, os_out>>

\* ps_device_handle_selection with is_daemon_mode clear: it stores the
\* offer and returns.
OsHandleSelection ==
  /\ OsDispatching
  /\ Head(wlq).type = "selection"
  /\ wlq' = Tail(wlq)
  /\ liveOffers' = OffersAfterSelection(current_ps_offer, Head(wlq).offer, liveOffers)
  /\ current_ps_offer' = Head(wlq).offer
  /\ seq_counter' = NextSeq(seq_counter)
  /\ got_selection' = TRUE
  /\ UNCHANGED <<oneFrame, pc, exitCode, wpVars, ps_has_text, attempts, have_cache, os_out>>

\* A one-shot that creates its surface whatever the first roundtrip brought.
SurfaceAlways == TRUE

\* if (!got_selection && wl_comp && xdg_wmbase && wl_shm_obj)
SurfaceNeeded == ~got_selection /\ canPopup

\* wl_display_roundtrip returns; without a selection event and with the
\* globals a surface needs, create_daemon_surface and the popup loop follow.
OsRoundtripDone ==
  /\ pc = "os_rt1" /\ Idle
  /\ wlq = <<>> \/ gated
  /\ pc' = IF SurfaceNeeded THEN "os_poll" ELSE "os_cache"
  /\ os_surface' = SurfaceNeeded
  /\ attempts' = 0
  /\ UNCHANGED <<oneFrame0, os_receives, exitCode, seq_counter, wpVars, wlq, current_ps_offer, ps_has_text,
                 got_selection, liveOffers, have_cache, os_out>>

\* poll(&pfd, 1, 100) returns POLLIN: wl_display_read_events
OsPollIn ==
  /\ pc = "os_poll"
  /\ ~got_selection /\ attempts < PopupAttempts
  /\ wlq # <<>>
  /\ pc' = "os_dispatch"
  /\ UNCHANGED <<oneFrame, exitCode, seq_counter, wpVars, wlq, current_ps_offer, ps_has_text,
                 got_selection, liveOffers, attempts, have_cache, os_out>>

\* wl_display_dispatch_pending returns; attempts++
OsDispatchDone ==
  /\ pc = "os_dispatch"
  /\ wlq = <<>>
  /\ attempts' = attempts + 1
  /\ pc' = "os_poll"
  /\ UNCHANGED <<oneFrame, exitCode, seq_counter, wpVars, wlq, current_ps_offer, ps_has_text,
                 got_selection, liveOffers, have_cache, os_out>>

\* poll returns 0: wl_display_cancel_read; attempts++
OsPollTimeout ==
  /\ pc = "os_poll"
  /\ ~got_selection /\ attempts < PopupAttempts
  /\ attempts' = attempts + 1
  /\ UNCHANGED <<oneFrame, pc, exitCode, seq_counter, wpVars, wlq, current_ps_offer, ps_has_text,
                 got_selection, liveOffers, have_cache, os_out>>

\* while (!got_selection && attempts < 50) is found false
OsLoopExit ==
  /\ pc = "os_poll"
  /\ got_selection \/ attempts >= PopupAttempts
  /\ pc' = "os_cache"
  /\ UNCHANGED <<oneFrame, exitCode, seq_counter, wpVars, wlq, current_ps_offer, ps_has_text,
                 got_selection, liveOffers, attempts, have_cache, os_out>>

\* have_cache: a cache_dir argument was given and ensure_cache_dir succeeded
OsCache ==
  /\ pc = "os_cache"
  /\ have_cache' = (cache_dir_arg = "ok")
  /\ pc' = "os_output"
  /\ UNCHANGED <<oneFrame, exitCode, seq_counter, wpVars, wlq, current_ps_offer, ps_has_text,
                 got_selection, liveOffers, attempts, os_out>>

\* The read of the stored offer, fwrite to stdout and the cache update.
OsOutput ==
  /\ pc = "os_output"
  /\ pc' = "os_disconnect"
  /\ os_receives' = IF current_ps_offer # NullOffer /\ ps_has_text
                      THEN os_receives + 1 ELSE os_receives
  /\ IF current_ps_offer # NullOffer /\ ps_has_text
       THEN \E sel \in ReadPsOffer(current_ps_offer) :
              IF sel # Null
                THEN /\ os_out' = sel
                     /\ IF have_cache
                          THEN /\ seq_counter' = NextSeq(seq_counter)
                               /\ CallWritePrimary(sel, NextSeq(seq_counter))
                          ELSE UNCHANGED <<seq_counter, wpVars>>
                ELSE UNCHANGED <<os_out, seq_counter, wpVars>>
       ELSE /\ UNCHANGED os_out
            /\ IF have_cache
                 THEN /\ seq_counter' = NextSeq(seq_counter)
                      /\ CallWritePrimary("", NextSeq(seq_counter))
                 ELSE UNCHANGED <<seq_counter, wpVars>>
  /\ UNCHANGED <<oneFrame0, os_surface, exitCode, wlq, current_ps_offer, ps_has_text,
                 got_selection, liveOffers, attempts, have_cache>>

\* wayland_disconnect(); return 0
OsReturn ==
  /\ pc = "os_disconnect" /\ Idle
  /\ current_ps_offer' = NullOffer
  /\ liveOffers' = liveOffers \ {current_ps_offer.id}
  /\ exitCode' = 0
  /\ pc' = "os_done"
  /\ UNCHANGED <<oneFrame, seq_counter, wpVars, wlq, ps_has_text, got_selection, attempts,
                 have_cache, os_out>>

\* main and run_oneshot of the x11 and xwayland programs: XOpenDisplay,
\* get_primary_selection, fwrite; 0 with data, 1 without.
OsXOneshot ==
  /\ pc = "os_start" /\ backend \in X11Backends
  /\ \E opened \in BOOLEAN :
       IF opened
         THEN \E sel \in XRead :
                IF sel # Null
                  THEN os_out' = sel /\ exitCode' = 0
                  ELSE exitCode' = 1 /\ UNCHANGED os_out
         ELSE exitCode' = 1 /\ UNCHANGED os_out
  /\ pc' = "os_done"
  /\ UNCHANGED <<oneFrame, seq_counter, wpVars, wlq, current_ps_offer, ps_has_text,
                 got_selection, liveOffers, attempts, have_cache>>

\* oneshot_mode of the legacy program: 1 when XOpenDisplay fails, otherwise
\* read_selection, fwrite of what was read, and 0.
OsLegacyOneshot ==
  /\ pc = "os_start" /\ backend = "legacy"
  /\ \E opened \in BOOLEAN :
       IF opened
         THEN /\ \E sel \in XRead : os_out' = Payload(sel)
              /\ exitCode' = 0
         ELSE exitCode' = 1 /\ UNCHANGED os_out
  /\ pc' = "os_done"
  /\ UNCHANGED <<oneFrame, seq_counter, wpVars, wlq, current_ps_offer, ps_has_text,
                 got_selection, liveOffers, attempts, have_cache>>

\* ------------------------------------------------------- daemon surface
\* A surface left with the default (infinite) input region.
InputRegionInfinite == "infinite"

\* wl_surface_set_input_region(daemon_surface, empty) with a region to
\* which no rectangle was added.
InputRegionRequested == "empty"

\* What no surface step changes.
surfFrame == <<backend, seed, running, seq_counter, wpVars, fileVars, owner, xq, nSel, wlVars,
               histVars, readerVars, readVars, copyVars, oneVars, mimeVars, argVars, xrVars, shVars, raceVars>>

\* create_daemon_surface up to its first roundtrip: the buffer, the surface,
\* set_input_region, get_xdg_surface, get_toplevel and the initial commit,
\* which applies the pending input region.  A missing global or a failed
\* allocation makes it return -1 and run_daemon return 1.
CreateDaemonSurface ==
  /\ pc = "rt_device" /\ Idle /\ backend = "wayland"
  /\ wlq = <<>>
  /\ \E ok \in BOOLEAN :
       IF ok
         THEN /\ surfState' = "committed"
              /\ pendingRegion' = InputRegionRequested
              /\ inputRegion' = InputRegionRequested
              /\ pc' = "rt_configure"
              /\ UNCHANGED exitCode
         ELSE /\ pc' = "done"
              /\ exitCode' = 1
              /\ UNCHANGED <<surfState, pendingRegion, inputRegion>>
  /\ UNCHANGED <<surfFrame, wlq, surface_configured, cfgSent, attachUnacked>>

\* The roundtrip after the initial commit has returned: wl_surface_attach,
\* wl_surface_damage, wl_surface_commit.
SurfaceAttach ==
  /\ pc = "rt_configure" /\ Idle
  /\ wlq = <<>>
  /\ surfState' = "mapped"
  /\ inputRegion' = pendingRegion
  /\ attachUnacked' = (attachUnacked \/ ~surface_configured)
  /\ pc' = "rt_map"
  /\ UNCHANGED <<surfFrame, exitCode, wlq, surface_configured, pendingRegion, cfgSent>>

\* The last roundtrip of create_daemon_surface has returned; run_daemon
\* enters while (running).
SurfaceMapped ==
  /\ pc = "rt_map" /\ Idle
  /\ wlq = <<>>
  /\ pc' = "loop"
  /\ UNCHANGED <<surfFrame, exitCode, wlq, surfVars>>

\* xdg_surface_handle_configure: ack_configure; surface_configured = true
XdgSurfaceHandleConfigure ==
  /\ Dispatching
  /\ Head(wlq).type = "configure"
  /\ wlq' = Tail(wlq)
  /\ surface_configured' = TRUE
  /\ UNCHANGED <<surfFrame, pc, exitCode, surfState, pendingRegion, inputRegion, cfgSent,
                 attachUnacked>>

\* The compositor answers the initial commit with xdg_surface.configure, at
\* a time of its choosing.
XdgConfigure ==
  /\ backend = "wayland" /\ Serving
  /\ surfState # "none"
  /\ ~cfgSent
  /\ cfgSent' = TRUE
  /\ wlq' = Append(wlq, WlEvent("configure", NullOffer, ""))
  /\ UNCHANGED <<surfFrame, pc, exitCode, surface_configured, surfState, pendingRegion,
                 inputRegion, attachUnacked>>

\* ------------------------------------------------------- offer MIME types
\* The MIME types an offering client may advertise.
MimeTypes == AcceptableMimes \cup {"image/png", "text/html"}

\* The types clip_offer_handle_offer accepts.
ClipAcceptableMimes == {"text/plain;charset=utf-8", "text/plain"}

\* The types the offer listener of a device accepts.
AcceptedBy(dev) == IF dev = "primary" THEN AcceptableMimes ELSE ClipAcceptableMimes

\* A client owns PRIMARY or CLIPBOARD and advertises some set of types.
InitMime ==
  /\ DaemonOff /\ ReadOff /\ CopyOff /\ OneOff /\ SurfOff /\ ArgOff /\ XrOff /\ ShOff /\ RaceOff
  /\ backend = "wayland" /\ exitCode = -1
  /\ mimeDev \in {"primary", "clipboard"}
  /\ advertised \in SUBSET MimeTypes
  /\ mimesLeft = advertised
  /\ clip_has_text = FALSE
  /\ mime_pc = "data_offer"
  /\ offerRead = FALSE
  /\ requestedMime = ""

\* What no offer event changes.
mimeFrame == <<procVars, wpVars, fileVars, envVars, current_ps_offer, last_known_content,
               got_selection, liveOffers, histVars, readerVars, readVars, copyVars, oneVars,
               surfVars, argVars, xrVars, shVars, raceVars, mimeDev, advertised>>

\* The type read_ps_offer and read_clip_offer pass to receive.
ReceiveMime == "text/plain;charset=utf-8"

\* ps_device_handle_data_offer / dd_handle_data_offer
OfferAnnounced ==
  /\ mime_pc = "data_offer"
  /\ IF mimeDev = "primary"
       THEN ps_has_text' = FALSE /\ UNCHANGED clip_has_text
       ELSE clip_has_text' = FALSE /\ UNCHANGED ps_has_text
  /\ mime_pc' = "offer"
  /\ UNCHANGED <<mimeFrame, mimesLeft, offerRead, requestedMime>>

\* ps_offer_handle_offer / clip_offer_handle_offer for one advertised type
OfferType ==
  /\ mime_pc = "offer"
  /\ \E m \in mimesLeft :
       /\ mimesLeft' = mimesLeft \ {m}
       /\ IF mimeDev = "primary"
            THEN /\ ps_has_text' = IF m \in AcceptedBy(mimeDev) THEN TRUE ELSE ps_has_text
                 /\ UNCHANGED clip_has_text
            ELSE /\ clip_has_text' = IF m \in AcceptedBy(mimeDev) THEN TRUE ELSE clip_has_text
                 /\ UNCHANGED ps_has_text
  /\ UNCHANGED <<mimeFrame, mime_pc, offerRead, requestedMime>>

\* The selection event makes the offer current; ps_device_handle_selection
\* and check_and_update_primary read it when ps_has_text is set,
\* run_get_clipboard when clip_has_text is set.
OfferSelected ==
  /\ mime_pc = "offer"
  /\ mimesLeft = {}
  /\ offerRead' = IF mimeDev = "primary" THEN ps_has_text ELSE clip_has_text
  /\ requestedMime' = IF offerRead' THEN ReceiveMime ELSE ""
  /\ mime_pc' = "done"
  /\ UNCHANGED <<mimeFrame, mimesLeft, ps_has_text, clip_has_text>>

\* ------------------------------------------------------- specifications
DaemonNext ==
  \/ Start \/ Daemonize \/ XFirstCheck \/ LegacyFirstRead
  \/ OpenPrimary \/ WritePrimary \/ ClosePrimary \/ OpenSeq \/ WriteSeq \/ CloseSeq
  \/ EnterLoop \/ XLoopEnter \/ XNextEvent \/ LegacyEvent \/ LoopExit
  \/ HandleDataOffer \/ HandleOffer \/ HandleSelection
  \/ RoundtripDone \/ PollIn \/ DispatchDone \/ PollTimeout \/ LoopError
  \/ WlDisconnect \/ UnlinkPrimary \/ UnlinkSeq \/ UnlinkPid

EnvNext == XOwnerChange \/ WlNewSelection \/ WlClearSelection \/ Signal

Next == DaemonNext \/ EnvNext

Spec == Init /\ [][Next]_vars

ReaderNext == Next \/ ReaderPoll \/ ReaderRead

SpecReader == Init /\ [][ReaderNext]_vars

\* Every step of the daemon is a step of one sequential process that the
\* scheduler runs: bounded sleeps, polls with a timeout and system calls
\* on regular files return.
FairSpec == Spec /\ WF_vars(DaemonNext)

ReadNext == ReadPsOfferStart \/ RdHup \/ RdCapBreak \/ RdRead \/ XGetWindowProperty

SpecRead == InitRead /\ [][ReadNext]_vars

\* The two read loops on their own: read_fd_with_timeout on an offer's
\* pipe, or read_all_stdin.
InitLoops == (InitRead /\ reader = "wayland") \/ InitCopy

LoopsNext ==
  \/ ReadPsOfferStart \/ RdHup \/ RdCapBreak \/ RdRead
  \/ StdinCapBreak \/ StdinRead \/ StdinEof

SpecLoops == InitLoops /\ [][LoopsNext]_vars

\* A read loop is one sequential piece of code: poll returns within its
\* timeout and read returns.
FairLoops == SpecLoops /\ WF_vars(LoopsNext)

\* copy-clipboard from its start, with clients that paste from it.
CopyNext ==
  \/ StdinCapBreak \/ StdinRead \/ StdinEof \/ CopyCheck \/ CopyOwn \/ CopyFork
  \/ ChildSetup \/ CopyLoopTest
  \/ XServeRequest \/ XDrainDone \/ XSleepTick
  \/ WlCopyPollIn \/ WlCopyPollTimeout \/ WlCopyError
  \/ DsHandleSend \/ DsSendDone \/ WlDrainDone
  \/ RdHup \/ RdCapBreak \/ RdRead
  \/ ClipRequest

SpecCopy == InitCopy /\ [][CopyNext]_vars

\* The forked clipboard server with clients that paste, clients that take
\* the selection, and signals.
ServeNext ==
  \/ ChildSetup \/ CopyLoopTest
  \/ XServeRequest \/ XServeClear \/ XDrainDone \/ XSleepTick
  \/ WlCopyPollIn \/ WlCopyPollTimeout \/ WlCopyError
  \/ DsHandleSend \/ DsSendDone \/ DsHandleCancelled \/ WlDropEvent \/ WlDrainDone
  \/ RdHup \/ RdRead
  \/ ClipRequest \/ ClipRequestOther \/ OtherTakesClipboard \/ CopySigHup \/ CopySigTerm

SpecServe == InitServe /\ [][ServeNext]_vars

\* A --oneshot run of any of the four programs.
OneshotNext ==
  \/ OsConnect \/ OsHandleDataOffer \/ OsHandleOffer \/ OsHandleSelection
  \/ OsRoundtripDone \/ OsPollIn \/ OsDispatchDone \/ OsPollTimeout \/ OsLoopExit
  \/ OsCache \/ OsOutput \/ OsReturn
  \/ OsXOneshot \/ OsLegacyOneshot
  \/ WritePrimarySteps

SpecOneshot == InitOneshot /\ [][OneshotNext]_vars

\* The one-shot is one sequential process: its roundtrips return, its polls
\* have a 100 ms timeout and its reads of the offer have a timeout.
FairOneshot == SpecOneshot /\ WF_vars(OneshotNext)

\* The Wayland daemon with its surface and the compositor's configure event
\* (the startup time plays no part in the surface's life).
InitSurface == Init /\ backend = "wayland" /\ seed = 1

SurfaceNext ==
  \/ Start \/ Daemonize \/ WritePrimarySteps
  \/ CreateDaemonSurface \/ SurfaceAttach \/ SurfaceMapped \/ XdgSurfaceHandleConfigure
  \/ HandleDataOffer \/ HandleOffer \/ HandleSelection
  \/ PollIn \/ DispatchDone \/ PollTimeout \/ LoopError \/ LoopExit
  \/ WlDisconnect \/ UnlinkPrimary \/ UnlinkSeq \/ UnlinkPid
  \/ WlNewSelection \/ WlClearSelection \/ Signal \/ XdgConfigure

SpecSurface == InitSurface /\ [][SurfaceNext]_vars

\* The Wayland daemon with every poll timeout of its loop, also those that
\* find nothing to re-read.
InitPoll == Init /\ backend = "wayland" /\ seed = 1

PollNext ==
  \/ Start \/ Daemonize \/ WritePrimarySteps
  \/ HandleDataOffer \/ HandleOffer \/ HandleSelection
  \/ RoundtripDone \/ PollIn \/ DispatchDone \/ PollTimeoutStep \/ LoopError \/ LoopExit
  \/ WlDisconnect \/ UnlinkPrimary \/ UnlinkSeq \/ UnlinkPid
  \/ WlNewSelection \/ WlClearSelection \/ Signal

SpecPoll == InitPoll /\ [][PollNext]_vars

\* ---- The Wayland daemon with events that arrive one at a time ----

InitRace == Init /\ backend = "wayland" /\ seed = 1

raceFrame == <<procVars, wpVars, fileVars, owner, xq, wlVars, histVars, readerVars, readVars,
               copyVars, oneVars, surfVars, mimeVars, argVars, xrVars, shVars>>

\* A client takes PRIMARY: the compositor sends data_offer, the offer's
\* types and selection, in this order.
WlAnnounce ==
  /\ backend = "wayland" /\ Serving
  /\ nSel < MaxEvents
  /\ wl_wire = <<>> /\ PendingSelections < MaxPending
  /\ \E c \in Contents, text \in BOOLEAN :
       LET offer == [id |-> nSel + 1, data |-> c, text |-> text]
           mime == IF text THEN "text/plain;charset=utf-8" ELSE "image/png"
       IN  /\ text \/ c = "a"
           /\ wl_wire' = << WlEvent("data_offer", offer, ""),
                            WlEvent("offer", offer, mime),
                            WlEvent("selection", offer, "") >>
  /\ nSel' = nSel + 1
  /\ UNCHANGED <<raceFrame, wlq>>

\* The next event reaches the daemon's socket: the three events need not
\* become readable within one poll interval.
WlArrive ==
  /\ backend = "wayland" /\ Serving
  /\ wl_wire # <<>>
  /\ wlq' = Append(wlq, Head(wl_wire))
  /\ wl_wire' = Tail(wl_wire)
  /\ UNCHANGED <<raceFrame, nSel>>

RaceNext ==
  \/ Start \/ Daemonize \/ WritePrimarySteps
  \/ HandleDataOffer \/ HandleOffer \/ HandleSelection
  \/ RoundtripDone \/ PollIn \/ DispatchDone \/ PollTimeoutStep
  \/ WlAnnounce \/ WlArrive

SpecRace == InitRace /\ [][RaceNext]_vars

\* One offer from its announcement to the decision to read it.
MimeNext == OfferAnnounced \/ OfferType \/ OfferSelected

SpecMime == InitMime /\ [][MimeNext]_vars

\* ---- main: the argument loop of the Wayland and of the X11 programs ----

\* The longest argument vector followed.
MaxArgs == 3

ModeFlags == {"--oneshot", "--get-clipboard", "--copy-clipboard", "--clear-primary"}

\* strcmp(argv[i], "--help") == 0 || strcmp(argv[i], "-h") == 0
HelpFlags == {"--help", "-h"}

\* The arguments tried: the listed flags, a directory and an unlisted option.
ArgTokens == ModeFlags \cup {"--help", "/run/cache", "--verbose"}

\* argv[i][0] == '-'
StartsWithDash(a) == a \in ModeFlags \cup HelpFlags \cup {"--verbose"}

ArgVectors == UNION {[1..n -> ArgTokens] : n \in 0..MaxArgs}

\* Both programs started with the same arguments.
InitArgs ==
  /\ DaemonOff /\ ReadOff /\ CopyOff /\ OneOff /\ SurfOff /\ MimeOff /\ XrOff /\ ShOff /\ RaceOff
  /\ backend = "wayland" /\ exitCode = -1
  /\ argv \in ArgVectors
  /\ wl_i = 1 /\ x_i = 1
  /\ mode = "MODE_DAEMON" /\ wl_cache_dir_arg = NoArg
  /\ x_flags = {} /\ x_cache_dir_arg = NoArg
  /\ wl_main_pc = "parse" /\ x_main_pc = "parse"

argFrame == <<daemonVars, readVars, copyVars, oneVars, surfVars, mimeVars, xrVars, shVars, raceVars, argv>>

\* The enum value each mode flag assigns to mode.
ModeOf(a) ==
  CASE a = "--oneshot" -> "MODE_ONESHOT"
    [] a = "--get-clipboard" -> "MODE_GET_CLIP"
    [] a = "--copy-clipboard" -> "MODE_COPY_CLIP"
    [] a = "--clear-primary" -> "MODE_CLEAR_PRIMARY"

\* Wayland main, one pass of for (int i = 1; i < argc; i++): a mode flag
\* assigns mode, --help / -h returns 0, anything else is cache_dir_arg.
WlMainArg ==
  /\ wl_main_pc = "parse" /\ wl_i <= Len(argv)
  /\ LET a == argv[wl_i]
     IN  /\ mode' = IF a \in ModeFlags THEN ModeOf(a) ELSE mode
         /\ wl_main_pc' = IF a \in HelpFlags THEN "help" ELSE wl_main_pc
         /\ wl_cache_dir_arg' = IF a \in ModeFlags \cup HelpFlags
                                  THEN wl_cache_dir_arg ELSE a
         /\ wl_i' = IF a \in HelpFlags THEN wl_i ELSE wl_i + 1
  /\ UNCHANGED <<argFrame, x_i, x_flags, x_cache_dir_arg, x_main_pc>>

\* Wayland main: the loop is over, switch (mode).
WlMainSwitch ==
  /\ wl_main_pc = "parse" /\ wl_i > Len(argv)
  /\ wl_main_pc' = "run"
  /\ UNCHANGED <<argFrame, wl_i, mode, wl_cache_dir_arg, x_i, x_flags, x_cache_dir_arg,
                 x_main_pc>>

\* The function switch (mode) calls.
WlOperation ==
  CASE mode = "MODE_ONESHOT" -> "run_oneshot"
    [] mode = "MODE_GET_CLIP" -> "run_get_clipboard"
    [] mode = "MODE_COPY_CLIP" -> "run_copy_clipboard"
    [] mode = "MODE_CLEAR_PRIMARY" -> "run_clear_primary"
    [] mode = "MODE_DAEMON" -> "run_daemon"

\* X11 main, one pass of the loop: a mode flag sets its boolean, --help /
\* -h returns 0, anything else is cache_dir_arg.
XMainArg ==
  /\ x_main_pc = "parse" /\ x_i <= Len(argv)
  /\ LET a == argv[x_i]
     IN  /\ x_flags' = IF a \in ModeFlags THEN x_flags \cup {a} ELSE x_flags
         /\ x_main_pc' = IF a \in HelpFlags THEN "help" ELSE x_main_pc
         /\ x_cache_dir_arg' = IF a \in ModeFlags \cup HelpFlags
                                 THEN x_cache_dir_arg ELSE a
         /\ x_i' = IF a \in HelpFlags THEN x_i ELSE x_i + 1
  /\ UNCHANGED <<argFrame, wl_i, mode, wl_cache_dir_arg, wl_main_pc>>

\* X11 main: the loop is over, the if / else if chain over the booleans.
XMainChain ==
  /\ x_main_pc = "parse" /\ x_i > Len(argv)
  /\ x_main_pc' = "run"
  /\ UNCHANGED <<argFrame, x_i, x_flags, x_cache_dir_arg, wl_i, mode, wl_cache_dir_arg,
                 wl_main_pc>>

\* The function the if / else if chain calls.
XOperation ==
  IF "--oneshot" \in x_flags THEN "run_oneshot"
  ELSE IF "--get-clipboard" \in x_flags THEN "run_get_clipboard"
  ELSE IF "--copy-clipboard" \in x_flags THEN "run_copy_clipboard"
  ELSE IF "--clear-primary" \in x_flags THEN "run_clear_primary"
  ELSE "run_daemon"

ArgsNext == WlMainArg \/ WlMainSwitch \/ XMainArg \/ XMainChain

SpecArgs == InitArgs /\ [][ArgsNext]_vars

\* ---- The X11 selection read, one Xlib call at a time ----

\* for (int i = 0; i < 100; i++)
PollBudget == 100

\* The requestor window of conversion c: a new window per read in the
\* x11 and xwayland programs, the daemon's one window in the legacy one.
WinOf(c) == IF backend = "legacy" THEN 0 ELSE c

InitXRead ==
  /\ DaemonOff /\ ReadOff /\ CopyOff /\ OneOff /\ SurfOff /\ MimeOff /\ ArgOff /\ ShOff /\ RaceOff
  /\ backend \in {"x11", "xwayland", "legacy"} /\ exitCode = -1
  /\ xr_pc = "idle" /\ xr_i = 0 /\ xr_w = 0
  /\ xr_wins = (IF backend = "legacy" THEN {0} ELSE {})
  /\ xr_owner \in BOOLEAN
  /\ xr_pending = {} /\ xr_events = <<>>
  /\ xr_prop = [win \in ReaderWindows |-> 0]
  /\ xr_reads = 0 /\ xr_result = [read |-> 0, conv |-> 0, how |-> ""]
  /\ xr_made = [windows |-> 0, conversions |-> 0]

xrFrame == <<daemonVars, readVars, copyVars, oneVars, surfVars, mimeVars, argVars, shVars, raceVars>>

\* A reader that leaves its window behind.
WindowsLeaked(wins, w) == wins

\* XDestroyWindow(dpy, w) before get_primary_selection returns; the legacy
\* read_selection works on the caller's window and destroys nothing.
WindowsAfterRead(wins, w) == IF backend \in X11Backends THEN wins \ {w} ELSE wins

\* get_primary_selection: owner == None returns NULL at once; otherwise
\* XCreateSimpleWindow, XConvertSelection, XFlush. read_selection (legacy)
\* converts on the daemon's window whatever the owner; with no owner the
\* server answers the conversion itself with property None.
XrStart ==
  /\ xr_pc = "idle" /\ xr_reads < MaxReads
  /\ xr_reads' = xr_reads + 1
  /\ IF backend \in X11Backends /\ ~xr_owner
       THEN /\ xr_result' = [read |-> xr_reads', conv |-> 0, how |-> "noowner"]
            /\ UNCHANGED <<xr_pc, xr_i, xr_w, xr_wins, xr_pending, xr_events, xr_made>>
       ELSE /\ xr_w' = WinOf(xr_reads')
            /\ xr_wins' = xr_wins \cup {xr_w'}
            /\ xr_made' = [windows |-> xr_made.windows
                                        + (IF backend \in X11Backends THEN 1 ELSE 0),
                           conversions |-> xr_made.conversions + 1]
            /\ xr_i' = 0
            /\ xr_pc' = "poll"
            /\ IF xr_owner
                 THEN /\ xr_pending' = xr_pending \cup {xr_reads'}
                      /\ UNCHANGED xr_events
                 ELSE /\ xr_events' = Append(xr_events,
                                             [conv |-> xr_reads', property |-> FALSE])
                      /\ UNCHANGED xr_pending
            /\ UNCHANGED xr_result
  /\ UNCHANGED <<xrFrame, xr_owner, xr_prop>>

\* The queue positions of the SelectionNotify events for window w.
EventsFor(w) == {k \in 1..Len(xr_events) : WinOf(xr_events[k].conv) = w}

\* The queue without its k-th event.
WithoutEvent(k) == SubSeq(xr_events, 1, k - 1) \o SubSeq(xr_events, k + 1, Len(xr_events))

\* XCheckTypedWindowEvent(dpy, w, SelectionNotify, &ev) finds an event:
\* with property None the read returns nothing; otherwise
\* XGetWindowProperty returns what the property of w holds. The window
\* is destroyed (x11, xwayland) and the read returns.
XrPollHit ==
  /\ xr_pc = "poll" /\ xr_i < PollBudget
  /\ EventsFor(xr_w) # {}
  /\ LET k == CHOOSE j \in EventsFor(xr_w) : \A m \in EventsFor(xr_w) : j <= m
         ev == xr_events[k]
         got == IF ev.property THEN xr_prop[xr_w] ELSE 0
     IN  /\ xr_events' = WithoutEvent(k)
         /\ xr_result' = [read |-> xr_reads, conv |-> got,
                          how |-> IF ~ev.property THEN "refused"
                                  ELSE IF got = 0 THEN "empty" ELSE "reply"]
         /\ xr_prop' = IF ev.property \/ backend \in X11Backends
                         THEN [xr_prop EXCEPT ![xr_w] = 0] ELSE xr_prop
  /\ xr_wins' = WindowsAfterRead(xr_wins, xr_w)
  /\ xr_pc' = "idle"
  /\ UNCHANGED <<xrFrame, xr_i, xr_w, xr_owner, xr_pending, xr_reads, xr_made>>

\* XCheckTypedWindowEvent finds nothing: usleep, i++.
XrPollMiss ==
  /\ xr_pc = "poll" /\ xr_i < PollBudget
  /\ EventsFor(xr_w) = {}
  /\ xr_i' = xr_i + 1
  /\ UNCHANGED <<xrFrame, xr_pc, xr_w, xr_wins, xr_owner, xr_pending, xr_events, xr_prop,
                 xr_reads, xr_result, xr_made>>

\* The loop ends with i == 100 and no event: nothing is returned.
XrBudgetExhausted ==
  /\ xr_pc = "poll" /\ xr_i = PollBudget
  /\ xr_result' = [read |-> xr_reads, conv |-> 0, how |-> "timeout"]
  /\ xr_wins' = WindowsAfterRead(xr_wins, xr_w)
  /\ xr_prop' = IF backend \in X11Backends THEN [xr_prop EXCEPT ![xr_w] = 0] ELSE xr_prop
  /\ xr_pc' = "idle"
  /\ UNCHANGED <<xrFrame, xr_i, xr_w, xr_owner, xr_pending, xr_events, xr_reads, xr_made>>

\* The owner answers a conversion: it stores the bytes in the property of
\* the requestor window and sends SelectionNotify, or it refuses with
\* property None. Nothing reaches a window that no longer exists.
XrOwnerAnswers ==
  /\ xr_pc \in {"idle", "poll"}
  /\ \E c \in xr_pending, data \in BOOLEAN :
       /\ xr_pending' = xr_pending \ {c}
       /\ IF WinOf(c) \in xr_wins
            THEN /\ xr_events' = Append(xr_events, [conv |-> c, property |-> data])
                 /\ xr_prop' = IF data THEN [xr_prop EXCEPT ![WinOf(c)] = c] ELSE xr_prop
            ELSE UNCHANGED <<xr_events, xr_prop>>
  /\ UNCHANGED <<xrFrame, xr_pc, xr_i, xr_w, xr_wins, xr_owner, xr_reads, xr_result, xr_made>>

\* Another client takes PRIMARY, or the owner gives it up.
XrOwnerChanges ==
  /\ xr_pc \in {"idle", "poll"}
  /\ xr_owner' = ~xr_owner
  /\ UNCHANGED <<xrFrame, xr_pc, xr_i, xr_w, xr_wins, xr_pending, xr_events, xr_prop,
                 xr_reads, xr_result, xr_made>>

\* The daemon loop between two reads: XNextEvent takes an event that is
\* not an XFixes selection notification and ignores it.
XrLoopIgnoresEvent ==
  /\ xr_pc = "idle" /\ xr_events # <<>>
  /\ xr_events' = Tail(xr_events)
  /\ UNCHANGED <<xrFrame, xr_pc, xr_i, xr_w, xr_wins, xr_owner, xr_pending, xr_prop,
                 xr_reads, xr_result, xr_made>>

XReadNext ==
  \/ XrStart \/ XrPollHit \/ XrPollMiss \/ XrBudgetExhausted
  \/ XrOwnerAnswers \/ XrOwnerChanges \/ XrLoopIgnoresEvent

SpecXRead == InitXRead /\ [][XReadNext]_vars

\* ---- The daemon and a one-shot publishing to the same cache directory ----

\* The most publishes of the daemon that are followed.
MaxSharedPubs == 2

\* The publishes each process makes: the one-shot makes one.
Quota(p) == IF p = "daemon" THEN MaxSharedPubs ELSE 1

\* Bytes of two writers in one file.
Mixed == [proc |-> "mixed", n |-> 0]

\* The daemon has made its initial publish with seq_counter = time(NULL).
\* The one-shot is a new process: its seq_counter is the static 0, or 1
\* when ps_device_handle_selection has run.
InitShared ==
  /\ DaemonOff /\ ReadOff /\ CopyOff /\ OneOff /\ SurfOff /\ MimeOff /\ ArgOff /\ XrOff
  /\ RaceOff
  /\ backend = "wayland" /\ exitCode = -1
  /\ sh_wp = [p \in Procs |-> "idle"]
  /\ sh_arg = [p \in Procs |-> [seq |-> 0, by |-> NoBy, empty |-> TRUE]]
  /\ \E t \in 1..MaxTime, k \in {0, 1} :
       /\ sh_counter = [p \in Procs |-> IF p = "daemon" THEN t ELSE k]
       /\ sh_seq = [st |-> "val", v |-> t, by |-> [proc |-> "daemon", n |-> 0]]
       /\ sh_last = t
  /\ sh_n = [p \in Procs |-> 0]
  /\ sh_primary = [st |-> "empty", by |-> [proc |-> "daemon", n |-> 0]]

shFrame == <<daemonVars, readVars, copyVars, oneVars, surfVars, mimeVars, argVars, xrVars,
            raceVars>>

\* seq_counter++; write_primary(..., seq_counter) is entered: by the daemon
\* in ps_device_handle_selection or check_and_update_primary, by the
\* one-shot at the end of run_oneshot with have_cache set.
ShPublish(p) ==
  /\ sh_wp[p] = "idle" /\ sh_n[p] < Quota(p)
  /\ sh_counter' = [sh_counter EXCEPT ![p] = NextSeq(@)]
  /\ sh_n' = [sh_n EXCEPT ![p] = @ + 1]
  /\ \E e \in BOOLEAN :
       sh_arg' = [sh_arg EXCEPT ![p] = [seq |-> sh_counter'[p],
                                        by |-> [proc |-> p, n |-> sh_n'[p]],
                                        empty |-> e]]
  /\ sh_wp' = [sh_wp EXCEPT ![p] = "open_primary"]
  /\ UNCHANGED <<shFrame, sh_primary, sh_seq, sh_last>>

\* open(primary_path, O_WRONLY | O_CREAT | O_TRUNC, 0644)
ShOpenPrimary(p) ==
  /\ sh_wp[p] = "open_primary"
  /\ sh_primary' = [st |-> "empty", by |-> sh_arg[p].by]
  /\ sh_wp' = [sh_wp EXCEPT ![p] = "write_primary"]
  /\ UNCHANGED <<shFrame, sh_arg, sh_counter, sh_n, sh_seq, sh_last>>

\* if (len > 0 && data) write(fd, data, len): the bytes go to offset 0 of
\* whatever the file holds by now; bytes another process wrote after this
\* process truncated the file stay behind them when they are longer.
ShWritePrimary(p) ==
  /\ sh_wp[p] = "write_primary"
  /\ IF sh_arg[p].empty
       THEN UNCHANGED sh_primary
       ELSE \E whole \in BOOLEAN :
              /\ whole \/ (sh_primary.st = "data" /\ sh_primary.by # sh_arg[p].by)
              /\ sh_primary' = [st |-> "data",
                                by |-> IF whole THEN sh_arg[p].by ELSE Mixed]
  /\ sh_wp' = [sh_wp EXCEPT ![p] = "close_primary"]
  /\ UNCHANGED <<shFrame, sh_arg, sh_counter, sh_n, sh_seq, sh_last>>

\* close(fd)
ShClosePrimary(p) ==
  /\ sh_wp[p] = "close_primary"
  /\ sh_wp' = [sh_wp EXCEPT ![p] = "open_seq"]
  /\ UNCHANGED <<shFrame, sh_arg, sh_counter, sh_n, sh_primary, sh_seq, sh_last>>

\* open(seq_path, O_WRONLY | O_CREAT | O_TRUNC, 0644)
ShOpenSeq(p) ==
  /\ sh_wp[p] = "open_seq"
  /\ sh_seq' = [st |-> "empty", v |-> 0, by |-> sh_arg[p].by]
  /\ sh_wp' = [sh_wp EXCEPT ![p] = "write_seq"]
  /\ UNCHANGED <<shFrame, sh_arg, sh_counter, sh_n, sh_primary, sh_last>>

\* snprintf(buf, sizeof(buf), "%lu\n", seq); write(fd, buf, n)
ShWriteSeq(p) ==
  /\ sh_wp[p] = "write_seq"
  /\ sh_seq' = [st |-> "val", v |-> sh_arg[p].seq, by |-> sh_arg[p].by]
  /\ sh_last' = sh_arg[p].seq
  /\ sh_wp' = [sh_wp EXCEPT ![p] = "close_seq"]
  /\ UNCHANGED <<shFrame, sh_arg, sh_counter, sh_n, sh_primary>>

\* close(fd); write_primary returns.
ShCloseSeq(p) ==
  /\ sh_wp[p] = "close_seq"
  /\ sh_wp' = [sh_wp EXCEPT ![p] = "idle"]
  /\ UNCHANGED <<shFrame, sh_arg, sh_counter, sh_n, sh_primary, sh_seq, sh_last>>

SharedNext ==
  \E p \in Procs :
    \/ ShPublish(p) \/ ShOpenPrimary(p) \/ ShWritePrimary(p) \/ ShClosePrimary(p)
    \/ ShOpenSeq(p) \/ ShWriteSeq(p) \/ ShCloseSeq(p)

SpecShared == InitShared /\ [][SharedNext]_vars

\* ------------------------------------------------------- properties
\* C1: in every publish primary is opened with truncate, written and closed
\* before seq is opened; a value present in the seq file was written only
\* after the primary write of the same publish had been completed.
C1_PrimaryClosedBeforeSeq ==
  /\ fdSeq => (~fdPrimary /\ primary = wpData /\ wpSeq \in primDone)
  /\ seqf.st = "val" => seqf.v \in primDone

\* A publish of a non-empty selection is inside its seq write.
C1_Witness == fdSeq /\ wpData \in Contents /\ wp = "close_seq"

\* C2: a reader that reads primary after it saw a changed seq value never
\* reads primary truncated or partially written.
C2_ReaderNeverReadsTornPrimary == ~rTorn

\* C3 (rule R): when the handler of a PRIMARY selection event has returned,
\* that event has been published: no handled event is left without a
\* publish when the daemon is ready to take the next one.
C3_EveryEventPublished ==
  (pc \in LoopPcs \cup DispatchPoints /\ Idle) => evUnpub = 0

\* C4: the values one daemon writes to the seq file are strictly increasing.
C4_SeqStrictlyIncreasing ==
  \A i, j \in DOMAIN seqHist : i < j => seqHist[i] < seqHist[j]

\* Writes caused by the startup, by selection events and by poll timeouts.
C4_Witness == Len(seqHist) >= 4 /\ nTimeouts >= 1 /\ nHandled >= 2

\* C5: each selection event adds exactly 1 to the published seq: with seed s
\* and k events handled (and no poll-timeout re-read) seq holds s + k.
C5_SeqIsSeedPlusEvents ==
  (pc \in LoopPcs /\ Idle /\ nTimeouts = 0 /\ seqf.st = "val")
    => seqf.v = seed + nHandled

\* C6: after the daemon has handled an event reporting an empty PRIMARY,
\* primary exists and is empty and seq holds a value greater than before.
C6_EmptyEventPublishesEmpty ==
  (pc \in LoopPcs \cup DispatchPoints /\ Idle /\ evKind = "empty")
    => /\ primary = ""
       /\ seqf.st = "val"
       /\ seqf.v > evSeqBefore.v

\* C7 as stated: while the event loop runs both files exist, and the first
\* publish was ("", time(now)), in every backend.
C7_FirstPublishEmpty ==
  pc \in LoopPcs =>
    /\ primary # Absent /\ seqf.st # "absent"
    /\ firstPub.set /\ firstPub.seq = seed /\ firstPub.data = ""

\* C7 amended: while the event loop runs both files exist and the first
\* publish carried seq = time(now); its payload is empty in the wayland,
\* x11 and xwayland backends (the legacy daemon publishes the selection
\* it reads at startup).
C7_PublishedBeforeLoop ==
  pc \in LoopPcs =>
    /\ primary # Absent /\ seqf.st # "absent"
    /\ firstPub.set /\ firstPub.seq = seed
    /\ backend # "legacy" => firstPub.data = ""

\* The legacy daemon is in its loop after a non-empty first publish.
C7_Witness ==
  pc \in LoopPcs /\ Idle /\ backend = "legacy" /\ firstPub.set /\ firstPub.data \in Contents

\* C8 (P1): if the seq file exists then the primary file exists.
C8_SeqImpliesPrimary == seqf.st # "absent" => primary # Absent

\* C9: once the loop has returned and the daemon has terminated, none of
\* primary, seq and monitor.pid exists and the exit code is 0.
C9_LoopReturnUnlinksAll ==
  pc = "done" => primary = Absent /\ seqf = SeqAbsent /\ ~pidf /\ exitCode = 0

\* The daemon terminated on a loop error (no signal) after having published
\* for selection events.
C9_Witness == pc = "done" /\ running /\ Len(seqHist) >= 2 /\ nHandled >= 1

\* C10: after a termination signal the daemon eventually terminates, also
\* when no further event arrives.
C10_SignalLeadsToExit == (~running) ~> (pc = "done")

\* C11 (P3): the bytes published to primary stay until the next selection
\* event is delivered: when selection bytes X were in primary at a Wayland
\* poll timeout, then after the re-read of the unchanged current offer has
\* returned, and as long as no event has been delivered, primary holds X.
C11_ContentStableUntilEvent ==
  (stableX \in Contents /\ Idle /\ pc \in LoopPcs) => primary = stableX

\* C12: for every payload and every chunking of its transfer, the PRIMARY
\* read returns exactly the first min(|payload|, MAX_SELECTION_SIZE) bytes.
C12_ReadReturnsCappedPayload ==
  rd_pc = "done" => total = Min(payloadLen, MAX_SELECTION_SIZE)

\* C13 (L1): for non-empty input B of at most MAX_CLIPBOARD_SIZE bytes, a
\* get-clipboard served by the copy-clipboard child that owns CLIPBOARD
\* writes exactly B, on every backend and for every repetition.
C13_CopyThenGetReturnsInput ==
  (getOut # -1 /\ stdinLen > 0 /\ stdinLen <= MAX_CLIPBOARD_SIZE /\ clipOwner = "server")
    => getOut = stdinLen

\* C15: once the child has handled SelectionClear (X11) or cancelled
\* (Wayland) it answers no request any more and does not sleep or poll
\* again: it only finishes the dispatch and leaves the serve loop.
C15_ExitsOnOwnershipLoss ==
  clearHandled =>
    /\ ~answeredAfterClear
    /\ cc_pc \in {"loop", "child_exit"} \/ (backend = "wayland" /\ cc_pc = "drain")
    /\ cc_pc = "loop" => (~running \/ copy_done)

\* The child has exited on the ownership loss with a request still queued
\* behind it.
C15_Witness == clearHandled /\ cc_pc = "child_exit" /\ cq # <<>> /\ ~sigTerm

\* C16: on the X11 paths the child is never in its serve loop with more
\* idle ticks behind it than the limit (plus the tick that accounts for
\* the request) since the last answered request, or since the start when
\* no request was answered.
C16_IdleTimeoutBoundsLifetime ==
  (backend \in X11Backends /\ cc_pc \in ServePcs) => idleTicks <= TimeoutTicks + 1

\* C17: in the serve loop SIGHUP neither ends the child nor clears
\* running, and after SIGTERM or SIGINT the loop test never passes again.
C17_SighupIgnoredTermExits ==
  /\ hupEffect \notin {"killed", "stopped"}
  /\ termPasses = 0
  /\ (sigTerm /\ cc_pc \in ServePcs) => ~running

\* The child got SIGHUP in its serve loop, went on, and later left the
\* loop on SIGTERM.
C17_Witness == hupEffect = "ignored" /\ sigTerm /\ cc_pc = "child_exit" /\ ~clearHandled

\* C18: copy-clipboard with empty standard input returns 1, and has
\* neither taken CLIPBOARD nor forked.
C18_EmptyInputExitsOne ==
  stdinLen = 0 =>
    /\ ~ownIssued /\ ~forked /\ clipOwner # "server"
    /\ cc_pc \in {"read_stdin", "check", "returned"}
    /\ cc_pc = "returned" => exitCode = 1

\* copy-clipboard has returned on empty input.
C18_Witness == stdinLen = 0 /\ cc_pc = "returned" /\ exitCode = 1 /\ data_len = 0

\* C19: copy-clipboard with more standard input than the clipboard size
\* cap exits with code 1.
C19_OversizedInputExitsOne ==
  (stdinLen > MAX_CLIPBOARD_SIZE /\ exitCode # -1) => exitCode = 1

\* C14: a one-shot run that finds no selection bytes (no owner, a NULL
\* selection, no text offer) writes nothing to standard output and exits
\* with code 1, in every backend.
C14_OneshotNoBytesExitsOne ==
  (pc = "os_done" /\ ~selAvail) => (os_out = "" /\ exitCode = 1)

\* The offers announced by a data_offer event whose selection event is
\* still queued.
QueuedOfferIds == {wlq[k].offer.id : k \in DOMAIN wlq} \ {NullOffer.id}

\* C20: the Wayland client tracks at most one live offer: the current
\* pointer, when set, designates an offer that has not been destroyed, and
\* every other live offer is one whose selection event is still queued; a
\* selection event that replaces the current offer destroys the previous
\* one in the same handler; and the receive of the selection handler and
\* of the poll-timeout re-read is issued on a live offer.
C20_OneLiveOfferTracked ==
  /\ [](/\ (current_ps_offer # NullOffer => current_ps_offer.id \in liveOffers)
        /\ liveOffers \subseteq ({current_ps_offer.id} \cup QueuedOfferIds))
  /\ [][/\ ((current_ps_offer # NullOffer /\ current_ps_offer' # current_ps_offer)
              => current_ps_offer.id \notin liveOffers')
         /\ (nTimeouts' # nTimeouts => current_ps_offer.id \in liveOffers)
         /\ ((backend = "wayland" /\ nHandled' # nHandled /\ evKind' \in {"text", "readfail"})
              => current_ps_offer'.id \in liveOffers')]_vars

\* Two selections with text were delivered and published one after the
\* other (three publishes with the initial one): the second replaced the
\* first, whose offer is gone.
C20_Witness ==
  /\ backend = "wayland" /\ nHandled = 2 /\ nTimeouts = 0
  /\ Len(seqHist) = 3
  /\ current_ps_offer.id = 2 /\ liveOffers = {2}

\* C21: a one-shot run given a usable cache directory that reads PRIMARY
\* successfully writes the bytes to standard output and leaves the same
\* bytes in primary, with a value in seq, in every backend.
C21_OneshotPublishesToCache ==
  (pc = "os_done" /\ cache_dir_arg = "ok" /\ os_out # "")
    => (primary = os_out /\ seqf # SeqAbsent /\ seqf # SeqEmpty)

\* C22: when the handler of a selection event has returned and its
\* selection read returned none, primary is empty and seq holds a value
\* greater than before the event (until the next event or re-read).
C22_ReadFailurePublishesEmpty ==
  (pc \in LoopPcs \cup DispatchPoints /\ Idle /\ evKind = "readfail" /\ stableX = NoReread)
    => /\ primary = ""
       /\ seqf.st = "val"
       /\ seqf.v > evSeqBefore.v

\* C23: the Wayland daemon attaches and commits the buffer only after a
\* configure of the surface has been acked, and is in its event loop only
\* with a configured surface.
C23_MappedOnlyAfterConfigure ==
  /\ ~attachUnacked
  /\ (backend = "wayland" /\ pc \in {"loop", "dispatch"}) => surface_configured

\* C24: whenever the daemon surface has been committed, the input region
\* in effect is empty.
C24_InputRegionEmpty ==
  surfState # "none" => (inputRegion = "empty" /\ pendingRegion = "empty")

\* The surface is mapped, the configure has been acked and the loop runs.
C24_Witness ==
  surfState = "mapped" /\ surface_configured /\ pc = "loop" /\ inputRegion = "empty"

\* C25: an offer of the PRIMARY or of the CLIPBOARD device is read exactly
\* when it advertises at least one of text/plain;charset=utf-8, text/plain,
\* UTF8_STRING, TEXT, STRING.
C25_ReadIffTextAdvertised ==
  mime_pc = "done" => (offerRead <=> (advertised \cap AcceptableMimes # {}))

C27_SelectionRequestAnswered ==
  lastReply # NoReply =>
    /\ lastReply.sent = 1
    /\ lastReply.target = "TARGETS" =>
         /\ lastReply.property = "requested"
         /\ lastReply.value = {"TARGETS", "UTF8_STRING", "STRING"}
    /\ lastReply.target \in {"UTF8_STRING", "STRING"} =>
         /\ lastReply.property = "requested"
         /\ lastReply.type = lastReply.target
         /\ lastReply.value = {"data"} /\ lastReply.len = data_len
    /\ lastReply.target \notin {"TARGETS", "UTF8_STRING", "STRING"} =>
         /\ lastReply.property = "None"
         /\ lastReply.value = {}

\* A request for a target the server does not offer has been answered.
C27_Witness ==
  /\ lastReply.target = "image/png" /\ lastReply.sent = 1
  /\ lastReply.property = "None"

\* C28: on X11, copy-clipboard forks only in a step taken after
\* XGetSelectionOwner has returned its own window, with that window still
\* the CLIPBOARD owner; a run that issued XSetSelectionOwner and returned
\* without a child (ownership not granted, or fork failed) has destroyed
\* the window, freed the buffer and exits with code 1.
C28_ForkOnlyWhenOwner ==
  /\ []((backend \in X11Backends /\ forked) => ownerChecked = "own")
  /\ []((backend \in X11Backends /\ cc_pc = "returned" /\ ownIssued) =>
          (exitCode = 1 /\ ~forked /\ copyWin = "destroyed" /\ dataFreed))
  /\ [][(backend \in X11Backends /\ forked' /\ ~forked) =>
          (ownerChecked = "own" /\ clipOwner = "server" /\ copyWin = "live")]_vars

C28_Witness ==
  /\ backend \in X11Backends /\ cc_pc = "returned" /\ ownIssued
  /\ ownerChecked = "other" /\ copyWin = "destroyed" /\ exitCode = 1 /\ ~forked

\* C29: the step in which fork succeeds and the parent exits sets exit
\* code 0 and leaves the selection owner, the window or data source, the
\* connection, the buffer and the queued events as they were.
C29_ParentExitLeavesHandles ==
  [][(forked' /\ ~forked) =>
       (exitCode' = 0 /\ UNCHANGED <<clipOwner, copyWin, copy_source, copyConn, dataFreed, cq>>)]_vars

C29_Witness ==
  /\ forked /\ cc_pc = "child_setup" /\ backend = "wayland" /\ exitCode = 0
  /\ copy_source /\ copyConn /\ clipOwner = "server" /\ ~dataFreed

\* The mode flags among the arguments.
ModeFlagsGiven == {argv[k] : k \in 1..Len(argv)} \cap ModeFlags

\* C30: once both programs have chosen what to run for the same
\* arguments, they run the same function with the same cache directory,
\* the daemon when no mode flag was given, and the cache directory is an
\* argument that does not start with '-'.
C30_SameOperationAndCacheDir ==
  (wl_main_pc = "run" /\ x_main_pc = "run") =>
    /\ WlOperation = XOperation
    /\ wl_cache_dir_arg = x_cache_dir_arg
    /\ (ModeFlagsGiven = {} => WlOperation = "run_daemon")
    /\ (wl_cache_dir_arg # NoArg => ~StartsWithDash(wl_cache_dir_arg))
    /\ (x_cache_dir_arg # NoArg => ~StartsWithDash(x_cache_dir_arg))

\* C31: in the x11 and xwayland programs no reader window exists between
\* two reads, whatever way the reads returned, during a read only its own
\* window exists, and a read started while PRIMARY has no owner returns
\* nothing without creating a window or issuing a conversion.
C31_NoReaderWindowRemains ==
  /\ []((backend \in X11Backends /\ xr_pc = "idle") => xr_wins = {})
  /\ []((backend \in X11Backends /\ xr_pc = "poll") => xr_wins = {xr_w})
  /\ [][(backend \in X11Backends /\ xr_reads' # xr_reads /\ ~xr_owner) =>
          (xr_made' = xr_made /\ xr_result'.conv = 0 /\ xr_pc' = "idle")]_vars

C31_Witness ==
  /\ backend \in X11Backends /\ xr_pc = "idle" /\ xr_reads = MaxReads
  /\ xr_result.how = "timeout" /\ xr_made.windows = 2 /\ xr_wins = {}

\* C36: the bytes a read returns are those stored for its own conversion.
C36_ReadTakesOwnReply ==
  xr_result.conv \in {0, xr_result.read}

\* C32: the Wayland one-shot reaches its end; it creates the surface only
\* in a step in which no selection event has arrived yet, counts at most
\* 50 iterations of the popup loop, leaves the loop at the first test
\* after a selection event, and issues at most one receive.
C32_OneshotTerminates ==
  /\ []((backend = "wayland") => (attempts <= PopupAttempts /\ os_receives <= 1))
  /\ [][(os_surface' /\ ~os_surface) => ~got_selection]_vars
  /\ [][(backend = "wayland" /\ pc = "os_poll" /\ got_selection) => pc' = "os_cache"]_vars
  /\ [][(backend = "wayland" /\ os_receives' # os_receives) => pc = "os_output"]_vars
  /\ ((backend = "wayland") => <>(pc = "os_done"))

C32_Witness ==
  /\ backend = "wayland" /\ pc = "os_done" /\ exitCode = 0
  /\ os_surface /\ got_selection /\ os_receives = 1 /\ attempts < PopupAttempts

\* C33: a daemon that has ended after its first publish has removed
\* primary, seq and monitor.pid.
C33_ExitRemovesFiles ==
  (pc = "done" /\ firstPub.set) => (primary = Absent /\ seqf = SeqAbsent /\ ~pidf)

\* C34: no write to the seq file of a cache directory stores a value
\* smaller than the value written before it, whichever process writes.
C34_SeqNeverDecreases == [][sh_last' >= sh_last]_vars

\* C35: once the daemon and the one-shot have both finished their
\* publishes, the primary file and the seq file were last written by the
\* same publish.
C35_PrimaryAndSeqSamePublish ==
  (\A p \in Procs : sh_wp[p] = "idle" /\ sh_n[p] = Quota(p)) =>
    sh_primary.by = sh_seq.by

\* C37: a receive issued on a PRIMARY or CLIPBOARD offer names a type
\* that the offer has advertised.
C37_ReceiveAdvertisedType ==
  (mime_pc = "done" /\ offerRead) => requestedMime \in advertised

\* C38: when the selection handler or a poll timeout tests ps_has_text to
\* decide about a read of an offer, the flag has the value the types of
\* that offer gave it.
C38_HasTextOfCurrentOffer ==
  /\ [][(nTimeouts' # nTimeouts /\ current_ps_offer # NullOffer) =>
          (ps_has_text = current_ps_offer.text)]_vars
  /\ [][(nHandled' # nHandled /\ current_ps_offer' # NullOffer) =>
          (ps_has_text = current_ps_offer'.text)]_vars

\* The size limit of the loop that runs: read_all_stdin's when no offer
\* is read, otherwise the max_size read_fd_with_timeout was given.
ReadCap == IF rd_pc = "off" THEN StdinCap ELSE max_size

\* C39: every read of read_fd_with_timeout and read_all_stdin is made
\* with total + 4096 <= capacity <= the size limit and adds 1..4096 bytes,
\* total never exceeds the limit, and the loop ends.
C39_ReadStaysInBuffer ==
  /\ [][(total' # total) =>
          /\ total + READ_CHUNK <= capacity'
          /\ capacity' <= ReadCap
          /\ total' > total /\ total' <= total + READ_CHUNK]_vars
  /\ [](total <= ReadCap)
  /\ <>(rd_pc = "done" \/ cc_pc = "check")

C39_Witness ==
  /\ rd_pc = "done" /\ payloadLen > max_size /\ capacity > max_size
  /\ total > max_size - READ_CHUNK /\ total <= max_size /\ nShort > 0

====
